---- MODULE Spec2Model ----
(***************************************************************************)
(* Photon Maze: the ray tracer of PhotonGame (src/js/config.js) with the   *)
(* Vec2 helpers (src/js/vec2.js).                                          *)
(*                                                                         *)
(* Numbers.  The program computes in IEEE doubles.  The model computes in  *)
(* exact rationals [n, d] (d > 0, lowest terms): +, -, *, / and the      *)
(* comparisons are exact.  Math.hypot / Math.sqrt are exact on rational    *)
(* squares and rounded down to a multiple of 1/SqrtDen otherwise; wherever *)
(* the program only compares a hypot with a number or squares it, the      *)
(* model compares or takes the squared value, which is exact.              *)
(***************************************************************************)
EXTENDS Integers, Sequences, FiniteSets, TLC

\* ------------------------------------------------------------------------
\* Exact rational arithmetic
\* ------------------------------------------------------------------------
Abs(n) == IF n < 0 THEN -n ELSE n

RECURSIVE Gcd(_, _)
Gcd(a, b) == IF b = 0 THEN a ELSE Gcd(b, a % b)

\* The rational n/d in lowest terms with d > 0.
Q(n, d) ==
    LET s == IF d < 0 THEN -1 ELSE 1
        g == Gcd(Abs(n), Abs(d))
    IN  [n |-> (s * n) \div g, d |-> (s * d) \div g]

QInt(n) == [n |-> n, d |-> 1]
QZero == [n |-> 0, d |-> 1]
QOne == [n |-> 1, d |-> 1]
\* The initial value of minT: above every finite number.
Infinity == [n |-> 1, d |-> 0]

QAdd(a, b) ==
    LET g == Gcd(a.d, b.d)
    IN  Q(a.n * (b.d \div g) + b.n * (a.d \div g), (a.d \div g) * b.d)
QNeg(a) == [n |-> -a.n, d |-> a.d]
QSub(a, b) == QAdd(a, QNeg(b))
QMul(a, b) ==
    LET g1 == Gcd(Abs(a.n), b.d)
        g2 == Gcd(Abs(b.n), a.d)
    IN  Q((a.n \div g1) * (b.n \div g2), (a.d \div g2) * (b.d \div g1))
QDiv(a, b) == QMul(a, IF b.n < 0 THEN [n |-> -b.d, d |-> -b.n] ELSE [n |-> b.d, d |-> b.n])
QAbs(a) == [n |-> Abs(a.n), d |-> a.d]
\* Math.floor of a finite number.
QFloor(a) == a.n \div a.d
\* an/ad < bn/bd for ad, bd > 0, by comparing the integer parts and then the
\* inverted remainders: no product is formed, so nothing overflows.
RECURSIVE FracLt(_, _, _, _)
FracLt(an, ad, bn, bd) ==
    LET qa == an \div ad
        qb == bn \div bd
        ra == an % ad
        rb == bn % bd
    IN  IF qa # qb THEN qa < qb
        ELSE IF rb = 0 THEN FALSE
        ELSE IF ra = 0 THEN TRUE
        ELSE FracLt(bd, rb, ad, ra)

QLt(a, b) ==
    IF b.d = 0 THEN a.d # 0
    ELSE IF a.d = 0 THEN FALSE
    ELSE FracLt(a.n, a.d, b.n, b.d)
QLe(a, b) == ~QLt(b, a)
QMax(a, b) == IF QLt(a, b) THEN b ELSE a
QMin(a, b) == IF QLt(b, a) THEN b ELSE a

\* Largest k with k * k <= n, by bisection on lo..hi.
RECURSIVE ISqrtIn(_, _, _)
ISqrtIn(n, lo, hi) ==
    IF lo >= hi THEN lo
    ELSE LET mid == (lo + hi + 1) \div 2
         IN  IF mid * mid <= n THEN ISqrtIn(n, mid, hi) ELSE ISqrtIn(n, lo, mid - 1)

ISqrt(n) == ISqrtIn(n, 0, IF n < 46340 THEN n ELSE 46340)

\* Denominator to which an irrational square root is rounded.
SqrtDen == 64

\* Math.sqrt: exact on a rational square, rounded down to 1/SqrtDen otherwise.
QSqrt(a) ==
    LET rn == ISqrt(a.n)
        rd == ISqrt(a.d)
    IN  IF rn * rn = a.n /\ rd * rd = a.d
        THEN [n |-> rn, d |-> rd]
        ELSE Q(ISqrt((a.n * SqrtDen * SqrtDen) \div a.d), SqrtDen)

\* ------------------------------------------------------------------------
\* Vec2 (src/js/vec2.js)
\* ------------------------------------------------------------------------
V(x, y) == [x |-> x, y |-> y]
VInt(x, y) == [x |-> QInt(x), y |-> QInt(y)]

Vec2Add(a, b) == V(QAdd(a.x, b.x), QAdd(a.y, b.y))
Vec2Sub(a, b) == V(QSub(a.x, b.x), QSub(a.y, b.y))
Vec2Mult(v, n) == V(QMul(v.x, n), QMul(v.y, n))
Vec2Dot(a, b) == QAdd(QMul(a.x, b.x), QMul(a.y, b.y))

\* Math.hypot(x, y) squared: the exact value of every hypot the program takes.
HypotSq(x, y) == QAdd(QMul(x, x), QMul(y, y))

\* Math.hypot(x, y), scaled by the larger component as hypot implementations
\* do, so that neither small nor large components overflow.
Hypot(x, y) ==
    LET m == QMax(QAbs(x), QAbs(y))
    IN  IF m = QZero THEN QZero
        ELSE QMul(m, QSqrt(HypotSq(QDiv(x, m), QDiv(y, m))))

Vec2Mag(v) == Hypot(v.x, v.y)

Vec2Normalize(v) ==
    LET m == Hypot(v.x, v.y)
    IN  IF m # QZero THEN V(QDiv(v.x, m), QDiv(v.y, m)) ELSE V(QZero, QZero)

Vec2Dist(a, b) == Hypot(QSub(a.x, b.x), QSub(a.y, b.y))

\* Vec2.dist(a, b) ** 2, and the comparison Vec2.dist(a, b) < r.
Vec2DistSq(a, b) == HypotSq(QSub(a.x, b.x), QSub(a.y, b.y))
Vec2DistLess(a, b, r) == QLt(QZero, r) /\ QLt(Vec2DistSq(a, b), QMul(r, r))

\* ------------------------------------------------------------------------
\* CONFIG (src/js/config.js)
\* ------------------------------------------------------------------------
AirIndex == QInt(1)
RefractiveIndex == Q(3, 2)
ColorsWall == "#00ccff"

\* ------------------------------------------------------------------------
\* Walls
\* ------------------------------------------------------------------------
CalculateNormal(a, b) ==
    LET dx == QSub(b.x, a.x)
        dy == QSub(b.y, a.y)
    IN  Vec2Normalize(V(QNeg(dy), dx))

\* this.walls.push({a, b, type, normal}) on the wall list ws.
AddWall(ws, x1, y1, x2, y2, type) ==
    Append(ws, [a |-> V(x1, y1), b |-> V(x2, y2), type |-> type,
                normal |-> CalculateNormal(V(x1, y1), V(x2, y2))])

\* ------------------------------------------------------------------------
\* Intersection and target tests
\* ------------------------------------------------------------------------
Null == [null |-> TRUE]
Epsilon == Q(1, 100)
DetThreshold == Q(1, 100000)
\* Mutant of FarDist.
FarDistShort == QInt(200)
FarDist == QInt(2000)

\* Mutant of GetLineIntersection: the test 0 <= t2 <= 1 of line 379 missing.
GetLineIntersectionOffSegment(p, d, a, b) ==
    LET v1 == V(QSub(p.x, a.x), QSub(p.y, a.y))
        v2 == V(QSub(b.x, a.x), QSub(b.y, a.y))
        v3 == V(QNeg(d.y), d.x)
        dot == Vec2Dot(v2, v3)
    IN  IF QLt(QAbs(dot), DetThreshold) THEN Null
        ELSE LET t1 == QDiv(QSub(QMul(v2.x, v1.y), QMul(v2.y, v1.x)), dot)
             IN  IF QLe(QZero, t1)
                 THEN [t |-> t1,
                       point |-> V(QAdd(p.x, QMul(t1, d.x)), QAdd(p.y, QMul(t1, d.y)))]
                 ELSE Null

GetLineIntersection(p, d, a, b) ==
    LET v1 == V(QSub(p.x, a.x), QSub(p.y, a.y))
        v2 == V(QSub(b.x, a.x), QSub(b.y, a.y))
        v3 == V(QNeg(d.y), d.x)
        dot == Vec2Dot(v2, v3)
    IN  IF QLt(QAbs(dot), DetThreshold) THEN Null
        ELSE LET t1 == QDiv(QSub(QMul(v2.x, v1.y), QMul(v2.y, v1.x)), dot)
                 t2 == QDiv(Vec2Dot(v1, v3), dot)
             IN  IF QLe(QZero, t1) /\ QLe(QZero, t2) /\ QLe(t2, QOne)
                 THEN [t |-> t1,
                       point |-> V(QAdd(p.x, QMul(t1, d.x)), QAdd(p.y, QMul(t1, d.y)))]
                 ELSE Null

\* Mutant of SegmentCircleIntersect: only the end point p2 is tested.
SegmentCircleEndPointOnly(p1, p2, circle) == Vec2DistLess(circle, p2, circle.r)

\* Mutant of SegmentCircleIntersect: <= in place of < in both comparisons.
SegmentCircleInclusive(p1, p2, circle) ==
    LET L2 == Vec2DistSq(p1, p2)
        within(a, b) == QLe(QZero, circle.r) /\ QLe(Vec2DistSq(a, b), QMul(circle.r, circle.r))
    IN  IF L2 = QZero THEN within(p1, circle)
        ELSE LET t0 == QDiv(QAdd(QMul(QSub(circle.x, p1.x), QSub(p2.x, p1.x)),
                                 QMul(QSub(circle.y, p1.y), QSub(p2.y, p1.y))), L2)
                 t == QMax(QZero, QMin(QOne, t0))
                 proj == V(QAdd(p1.x, QMul(t, QSub(p2.x, p1.x))),
                           QAdd(p1.y, QMul(t, QSub(p2.y, p1.y))))
             IN  within(circle, proj)

SegmentCircleIntersect(p1, p2, circle) ==
    LET L2 == Vec2DistSq(p1, p2)
    IN  IF L2 = QZero THEN Vec2DistLess(p1, circle, circle.r)
        ELSE LET t0 == QDiv(QAdd(QMul(QSub(circle.x, p1.x), QSub(p2.x, p1.x)),
                                 QMul(QSub(circle.y, p1.y), QSub(p2.y, p1.y))), L2)
                 t == QMax(QZero, QMin(QOne, t0))
                 proj == V(QAdd(p1.x, QMul(t, QSub(p2.x, p1.x))),
                           QAdd(p1.y, QMul(t, QSub(p2.y, p1.y))))
             IN  Vec2DistLess(circle, proj, circle.r)

\* Mutant of NearerHit: <= in place of < against minT.
NearerHitOrEqual(hit, minT) == hit # Null /\ QLt(Epsilon, hit.t) /\ QLe(hit.t, minT)

\* Mutant of NearerHit: the epsilon test missing.
NearerHitNoEpsilon(hit, minT) == hit # Null /\ QLt(hit.t, minT)

\* The test of line 288: this wall's hit replaces the nearest one found so far.
NearerHit(hit, minT) == hit # Null /\ QLt(Epsilon, hit.t) /\ QLt(hit.t, minT)

\* The scan of lines 283-293 over walls k..Len(ws); acc holds closest, minT
\* and hitWall (the index of the wall in ws, 0 for null).
RECURSIVE ScanWalls(_, _, _, _, _)
ScanWalls(ws, k, pos, d, acc) ==
    IF k > Len(ws) THEN acc
    ELSE LET hit == GetLineIntersection(pos, d, ws[k].a, ws[k].b)
         IN  IF NearerHit(hit, acc.minT)
             THEN ScanWalls(ws, k + 1, pos, d,
                            [closest |-> hit.point, minT |-> hit.t, hitWall |-> k])
             ELSE ScanWalls(ws, k + 1, pos, d, acc)

NearestHit(ws, pos, d) ==
    ScanWalls(ws, 1, pos, d, [closest |-> Null, minT |-> Infinity, hitWall |-> 0])

\* Mutant of Reflect: the factor 2 missing.
ReflectNoFactor(d, normal) ==
    Vec2Normalize(Vec2Sub(d, Vec2Mult(normal, Vec2Dot(d, normal))))

\* d - 2 * dot(d, normal) * normal, normalised (lines 311-316, 336-340).
Reflect(d, normal) ==
    Vec2Normalize(Vec2Sub(d, Vec2Mult(normal, QMul(QInt(2), Vec2Dot(d, normal)))))

\* The normal of a mirror turned against the incoming direction (lines 307-309).
MirrorNormal(d, normal) ==
    IF QLt(QZero, Vec2Dot(d, normal)) THEN Vec2Mult(normal, QInt(-1)) ELSE normal

MirrorDirection(d, normal) == Reflect(d, MirrorNormal(d, normal))

\* Mutant of GlassDirection: the test for entering is the wrong way round.
GlassDirectionWrongSide(d, wallNormal) ==
    LET entering == QLt(QZero, Vec2Dot(d, wallNormal))
        normal == IF entering THEN wallNormal ELSE Vec2Mult(wallNormal, QInt(-1))
        n1 == IF entering THEN AirIndex ELSE RefractiveIndex
        n2 == IF entering THEN RefractiveIndex ELSE AirIndex
        n == QDiv(n1, n2)
        cosI == QNeg(Vec2Dot(normal, d))
        sinT2 == QMul(QMul(n, n), QSub(QOne, QMul(cosI, cosI)))
    IN  IF QLt(QOne, sinT2) THEN Reflect(d, normal)
        ELSE LET cosT == QSqrt(QSub(QOne, sinT2))
                 term1 == Vec2Mult(d, n)
                 term2 == Vec2Mult(normal, QSub(QMul(n, cosI), cosT))
             IN  Vec2Add(term1, term2)

\* Mutant of GlassDirection: the indices are not swapped for a ray that exits.
GlassDirectionNoSwap(d, wallNormal) ==
    LET entering == QLt(Vec2Dot(d, wallNormal), QZero)
        normal == IF entering THEN wallNormal ELSE Vec2Mult(wallNormal, QInt(-1))
        n == QDiv(AirIndex, RefractiveIndex)
        cosI == QNeg(Vec2Dot(normal, d))
        sinT2 == QMul(QMul(n, n), QSub(QOne, QMul(cosI, cosI)))
    IN  IF QLt(QOne, sinT2) THEN Reflect(d, normal)
        ELSE LET cosT == QSqrt(QSub(QOne, sinT2))
                 term1 == Vec2Mult(d, n)
                 term2 == Vec2Mult(normal, QSub(QMul(n, cosI), cosT))
             IN  Vec2Add(term1, term2)

\* The direction after a glass hit (lines 323-347).
GlassDirection(d, wallNormal) ==
    LET entering == QLt(Vec2Dot(d, wallNormal), QZero)
        normal == IF entering THEN wallNormal ELSE Vec2Mult(wallNormal, QInt(-1))
        n1 == IF entering THEN AirIndex ELSE RefractiveIndex
        n2 == IF entering THEN RefractiveIndex ELSE AirIndex
        n == QDiv(n1, n2)
        cosI == QNeg(Vec2Dot(normal, d))
        sinT2 == QMul(QMul(n, n), QSub(QOne, QMul(cosI, cosI)))
    IN  IF QLt(QOne, sinT2) THEN Reflect(d, normal)
        ELSE LET cosT == QSqrt(QSub(QOne, sinT2))
                 term1 == Vec2Mult(d, n)
                 term2 == Vec2Mult(normal, QSub(QMul(n, cosI), cosT))
             IN  Vec2Add(term1, term2)

\* Mutant of SpawnParticles: nothing is pushed.
SpawnParticlesNone(ps, pos, color) == ps

\* Three particles pushed at pos (the random velocity of each is left out).
SpawnParticles(ps, pos, color) ==
    LET part == [x |-> pos.x, y |-> pos.y, life |-> 1, color |-> color]
    IN  ps \o <<part, part, part>>

\* ------------------------------------------------------------------------
\* Inputs of the trace specification
\* ------------------------------------------------------------------------
\* Largest value of this.maxBounces tried.
MaxBouncesBound == 3

\* CONFIG.defaultMaxBounces
DefaultMaxBounces == 20

\* Canvas width and height of the scenes.
CanvasW == 10
CanvasH == 10

W(x1, y1, x2, y2, type) == <<QInt(x1), QInt(y1), QInt(x2), QInt(y2), type>>

RECURSIVE BuildWalls(_, _)
BuildWalls(ws, list) ==
    IF list = <<>> THEN ws
    ELSE BuildWalls(AddWall(ws, list[1][1], list[1][2], list[1][3], list[1][4], list[1][5]),
                    Tail(list))

\* The four canvas-boundary walls in the order loadLevel adds them.
Border(w, h, type) ==
    <<W(0, 0, w, 0, type), W(w, 0, w, h, type), W(w, h, 0, h, type), W(0, h, 0, 0, type)>>

\* staticLevels[0] "RICOCHET" and staticLevels[1] "REFRACTION" on the canvas.
Level1Walls ==
    <<W(5, 4, 5, 6, "mirror"), W(3, 1, 7, 1, "mirror"), W(3, 9, 7, 9, "mirror")>>
Level2Walls ==
    <<W(4, 2, 6, 2, "glass"), W(6, 2, 6, 8, "glass"), W(6, 8, 4, 8, "glass"),
      W(4, 8, 4, 2, "glass"), W(8, 5, 8, 10, "mirror")>>

\* An absorber with a mirror lying on it (equal t), nothing else.
AbsorberWalls == <<W(6, 2, 6, 8, "absorb"), W(6, 2, 6, 8, "mirror")>>

\* A mirror along (4, 3), of length 5, inside an absorbing boundary.
SkewWalls ==
    Border(CanvasW, CanvasH, "absorb")
        \o <<<<QInt(5), Q(7, 2), QInt(9), Q(13, 2), "mirror">>>>

\* Walls at the thresholds of the intersection test, for a ray along y = 5:
\* one at distance exactly Epsilon from (1, 5), one of length 1/200000
\* (determinant below DetThreshold), one of length 1/50000 (above it).
ThresholdWalls ==
    <<<<Q(101, 100), QInt(4), Q(101, 100), QInt(6), "absorb">>,
      <<QInt(2), QInt(5), QInt(2), Q(1000001, 200000), "absorb">>,
      <<QInt(3), QInt(5), QInt(3), Q(250001, 50000), "mirror">>,
      W(8, 0, 8, 10, "absorb")>>

\* One glass wall along (4, 3), of length 5, nothing else.
PrismWalls == <<<<QInt(3), Q(7, 2), QInt(7), Q(13, 2), "glass">>>>

\* One glass wall along y = 3, met from below (leaving the glass) and from above
\* (entering it) at angles just under and just over the critical angle.
CriticalWalls == <<W(0, 3, 10, 3, "glass")>>
CriticalDirs == {VInt(48, 55), VInt(65, 72), VInt(48, -55), VInt(65, -72)}

\* A slab of glass between y = 8 and y = 9: two parallel glass walls drawn in
\* opposite directions, so that their stored normals point away from the slab.
SlabWalls == <<W(10, 8, 0, 8, "glass"), W(0, 9, 10, 9, "glass")>>

\* The two worked scenes: a mirror from (50,0) to (50,100), and a glass square
\* over x in [40,60], y in [20,80], its sides in the order of level 2.
MirrorSceneWalls == <<W(50, 0, 50, 100, "mirror")>>
GlassSquareWalls ==
    <<W(40, 20, 60, 20, "glass"), W(60, 20, 60, 80, "glass"),
      W(60, 80, 40, 80, "glass"), W(40, 80, 40, 20, "glass")>>
MirrorScene == BuildWalls(<<>>, MirrorSceneWalls)
GlassSquareScene == BuildWalls(<<>>, GlassSquareWalls)

WallConfigs ==
    <<BuildWalls(<<>>, Border(CanvasW, CanvasH, "mirror") \o Level1Walls),
      BuildWalls(<<>>, Border(CanvasW, CanvasH, "mirror") \o Level2Walls),
      <<>>,
      BuildWalls(<<>>, AbsorberWalls),
      BuildWalls(<<>>, SkewWalls),
      BuildWalls(<<>>, ThresholdWalls),
      BuildWalls(<<>>, PrismWalls),
      BuildWalls(<<>>, CriticalWalls),
      BuildWalls(<<>>, SlabWalls),
      MirrorScene,
      GlassSquareScene>>

Circle(x, y, r) == [x |-> QInt(x), y |-> QInt(y), r |-> QInt(r)]
Targets == {Circle(9, 5, 1), Circle(3, 5, 1), Circle(9, 4, 1)}
Starts == {VInt(1, 5), VInt(1, 1), VInt(9, 5)}
AxisDirs == {VInt(1, 0), VInt(-1, 0), VInt(0, 1), VInt(0, -1), VInt(2, 0), VInt(0, 0)}
Dirs == AxisDirs \cup {VInt(3, 4), VInt(4, 3), VInt(3, -4), VInt(-4, 3)}

\* The directions shot at the walls ws.  A refraction at oblique incidence has
\* an irrational direction, which the model rounds; what follows it is computed
\* from the rounded value, so where glass stands among other walls only rays
\* that meet it at normal incidence are shot.
ShotDirs(ws) ==
    IF ws = BuildWalls(<<>>, CriticalWalls) THEN CriticalDirs
    ELSE IF ws = BuildWalls(<<>>, SlabWalls) THEN Dirs
    ELSE IF Len(ws) > 1 /\ \E k \in DOMAIN ws : ws[k].type = "glass" THEN AxisDirs
    ELSE Dirs

\* The targets, the emitter positions and the bounce limits tried with the
\* walls ws: the worked scenes have their own emitter and target and are also
\* traced with the default bounce limit.
ShotTargets(ws) ==
    IF ws = MirrorScene THEN {Circle(100, 50, 15)}
    ELSE IF ws = GlassSquareScene THEN {Circle(90, 50, 15)}
    ELSE Targets
ShotStarts(ws) == IF ws \in {MirrorScene, GlassSquareScene} THEN {VInt(0, 50)} ELSE Starts
BounceLimits(ws) ==
    (-1..MaxBouncesBound)
        \cup (IF ws \in {MirrorScene, GlassSquareScene} THEN {DefaultMaxBounces} ELSE {})

\* this.emitter in the scene with the walls ws: (0.1 w, 0.5 h) as in levels 1
\* and 2, and (0, 50) in the worked scenes.
SceneEmitter(ws) == IF ws \in {MirrorScene, GlassSquareScene} THEN VInt(0, 50) ELSE VInt(1, 5)

\* Positions of this.mouse at a click, for the emitter e: on it, right of it, above it.
ShotMice(e) == {e, Vec2Add(e, VInt(3, 0)), Vec2Add(e, VInt(0, -2))}

\* Mutant of ShootRayDir: no fallback for a mouse on the emitter.
ShootRayDirNoFallback(mouse, emitterPos) == Vec2Sub(mouse, emitterPos)

\* The direction shootRay passes to traceRay (lines 407-408).
ShootRayDir(mouse, emitterPos) ==
    LET d == Vec2Sub(mouse, emitterPos)
    IN  IF Vec2Mag(d) = QZero THEN VInt(1, 0) ELSE d

\* ------------------------------------------------------------------------
\* State
\* ------------------------------------------------------------------------
VARIABLES
    walls,        \* this.walls
    target,       \* this.target
    maxBounces,   \* this.maxBounces
    particles,    \* this.particles
    start,        \* traceRay's argument start
    dir,          \* traceRay's argument dir
    points,       \* let points
    currPos,      \* let currPos
    currDir,      \* let currDir
    hitTarget,    \* let hitTarget
    i,            \* the loop counter
    closest,      \* let closest of the last iteration run
    minT,         \* let minT of the last iteration run
    hitWall,      \* let hitWall of the last iteration run: its index in walls, 0 for null
    pc,           \* "idle": not called; "loop": at the loop test; "done": returned
    aim,          \* shootRay's mouse, emitter and dir when the call came from it, else null
    emitter,      \* this.emitter
    attempts,     \* this.attempts
    history,      \* this.history
    cols,         \* MazeGenerator.generate's argument cols
    rows,         \* MazeGenerator.generate's argument rows
    grid,         \* let grid: cell <<x, y>> |-> its visited flag and four wall flags
    stack,        \* let stack: the cells <<x, y>> on it, the top last
    mazeWalls,    \* let walls of generate: the lines pushed
    mazePc,       \* "called": at line 8; "carve": in the while loop; "emit": after it;
                  \* "done": returned; "TypeError": thrown; "idle": not called
    mazeIter,     \* the number of iterations of the while loop of generate run so far
    pushes,       \* cell <<x, y>> |-> the number of times it was put on the stack
    pops,         \* cell <<x, y>> |-> the number of times stack.pop() returned it
    levelIndex,   \* this.levelIndex
    canvas,       \* <<this.canvas.width, this.canvas.height>>
    mouse,        \* this.mouse
    winOverlay,   \* this.ui.win has the class 'active'
    winTimers,    \* the number of pending timeouts of handleWin (line 478)
    page,         \* "game": the game's page is shown; "button": window.location was set to button.html
    loadEvent,    \* the window's load event: "pending", "pending-resume" (the
                  \* query has resume=true) or "fired"
    currentLevelBest, \* this.currentLevelBest
    levelRecords, \* this.levelRecords: the pairs <<level index, record>> set in it
    wonLengths,   \* the pairs <<level index, path length>> of the successful shots made
    script,       \* which of the two copies of the script in button.js runs: 1 (lines 1-273) or 2 (lines 277-506)
    level,        \* state.level
    clickCount,   \* state.clickCount
    won,          \* state.won
    mouseSpeed,   \* state.mouseSpeed, in hundredths of a pixel per millisecond
    position,     \* <<state.position.x, state.position.y>>
    dodgeTimer,   \* state.dodgeTimer: the id setTimeout returned, 0 for null
    timeouts,     \* the ids of the timeouts of tryDodge that are pending
    timeoutCount, \* the number of ids setTimeout has handed out
    sciCall       \* the last call of segmentCircleIntersect made on its own: p1, p2, circle, result

traceVars == <<walls, target, maxBounces, particles, start, dir, points, currPos,
               currDir, hitTarget, i, closest, minT, hitWall, pc, aim>>
circleVars == <<sciCall>>
gameVars == <<emitter, attempts, history>>
mazeCounts == <<mazeIter, pushes, pops>>
mazeVars == <<cols, rows, grid, stack, mazeWalls, mazePc, mazeCounts>>
scoreVars == <<currentLevelBest, levelRecords, wonLengths>>
pageVars == <<levelIndex, canvas, mouse, winOverlay, winTimers, page, loadEvent, scoreVars>>
buttonVars == <<script, level, clickCount, won, mouseSpeed, position, dodgeTimer, timeouts,
                timeoutCount>>
vars == <<traceVars, circleVars, gameVars, mazeVars, pageVars, buttonVars>>

\* What the trace specification leaves alone, and what the circle specification does.
nonTraceVars == <<circleVars, gameVars, mazeVars, pageVars, buttonVars>>
nonCircleVars == <<traceVars, gameVars, mazeVars, pageVars, buttonVars>>
nonMazeVars == <<traceVars, circleVars, gameVars, pageVars, buttonVars>>

\* The locals of traceRay.
traceLocals == <<start, dir, points, currPos, currDir, hitTarget, i, closest, minT, hitWall,
                 pc, aim>>

\* MazeGenerator.generate has not been called.
MazeIdle ==
    /\ cols = 0
    /\ rows = 0
    /\ grid = <<>>
    /\ stack = <<>>
    /\ mazeWalls = <<>>
    /\ mazePc = "idle"
    /\ mazeIter = 0
    /\ pushes = <<>>
    /\ pops = <<>>

\* The state of button.js as the script sets it (lines 21-30, 286-295), no
\* event delivered.
ButtonIdle ==
    /\ level = 0
    /\ clickCount = 0
    /\ won = FALSE
    /\ mouseSpeed = 0
    /\ position = <<50, 50>>
    /\ dodgeTimer = 0
    /\ timeouts = {}
    /\ timeoutCount = 0

\* The fields of the page that the tracer, the maze generator and the circle
\* test do not read, as the constructor sets them (lines 58, 65, 73, 74),
\* with no event delivered yet.
PageIdle ==
    /\ levelIndex = 0
    /\ canvas = <<CanvasW, CanvasH>>
    /\ mouse = VInt(0, 0)
    /\ winOverlay = FALSE
    /\ winTimers = 0
    /\ page = "game"
    /\ loadEvent = "pending"
    /\ currentLevelBest = Infinity
    /\ levelRecords = {}
    /\ wonLengths = {}
    /\ script = 1
    /\ ButtonIdle

\* A PhotonGame whose walls, target and bounce limit are set, before traceRay runs.
TraceInit ==
    /\ walls \in {WallConfigs[c] : c \in DOMAIN WallConfigs}
    /\ target \in ShotTargets(walls)
    /\ maxBounces \in BounceLimits(walls)
    /\ particles = <<>>
    /\ start = Null
    /\ dir = Null
    /\ points = <<>>
    /\ currPos = Null
    /\ currDir = Null
    /\ hitTarget = FALSE
    /\ i = 0
    /\ closest = Null
    /\ minT = Infinity
    /\ hitWall = 0
    /\ pc = "idle"
    /\ aim = Null
    /\ emitter = SceneEmitter(walls)
    /\ attempts = 0
    /\ history = <<>>
    /\ sciCall = Null
    /\ MazeIdle
    /\ PageIdle

\* Lines 275-280 of traceRay(s, d), up to the loop.
Enter(s, d) ==
    /\ start' = s
    /\ dir' = d
    /\ points' = <<s>>
    /\ currPos' = s
    /\ currDir' = Vec2Normalize(d)
    /\ hitTarget' = FALSE
    /\ i' = 0
    /\ pc' = "loop"

\* traceRay is called: with any start and direction, or from shootRay (line
\* 410) with the emitter and the direction shootRay worked out from the mouse.
TraceCall ==
    /\ pc = "idle"
    /\ \/ \E s \in ShotStarts(walls), d \in ShotDirs(walls) :
            Enter(s, d) /\ aim' = Null
       \/ \E m \in ShotMice(emitter) :
            /\ Enter(emitter, ShootRayDir(m, emitter))
            /\ aim' = [mouse |-> m, emitter |-> emitter, dir |-> ShootRayDir(m, emitter)]
    /\ UNCHANGED <<walls, target, maxBounces, particles, closest, minT, hitWall, nonTraceVars>>

\* Mutant of InLoop: the loop test written with <=.
InLoopOffByOne == pc = "loop" /\ i <= maxBounces

\* The loop test holds: an iteration of the body runs.
InLoop == pc = "loop" /\ i < maxBounces

\* The locals of an iteration after the wall scan of lines 283-293.
Scan == NearestHit(walls, currPos, currDir)

SetLocals(sc) ==
    /\ closest' = sc.closest
    /\ minT' = sc.minT
    /\ hitWall' = sc.hitWall

\* hitTarget after the target test of lines 297-298.
TargetTest(sc) == hitTarget \/ SegmentCircleIntersect(currPos, sc.closest, target)

\* Mutant of EndIteration: line 362 missing, the loop goes on after a target hit.
EndIterationNoBreak(ht) ==
    /\ hitTarget' = ht
    /\ pc' = "loop"
    /\ i' = i + 1

\* Line 362 and the loop increment.
EndIteration(ht) ==
    /\ hitTarget' = ht
    /\ pc' = IF ht THEN "done" ELSE "loop"
    /\ i' = IF ht THEN i ELSE i + 1

\* closest is null: the far point is pushed and the loop left (lines 355-361).
EscapeStep ==
    /\ InLoop
    /\ LET sc == Scan
       IN  /\ sc.closest = Null
           /\ SetLocals(sc)
    /\ points' = Append(points, V(QAdd(currPos.x, QMul(currDir.x, FarDist)),
                                  QAdd(currPos.y, QMul(currDir.y, FarDist))))
    /\ pc' = "done"
    /\ UNCHANGED <<walls, target, maxBounces, particles, start, dir, aim, currPos, currDir,
                   hitTarget, i, nonTraceVars>>

\* Mutant of AbsorbStep: the break of line 303 missing.
AbsorbStepNoBreak ==
    /\ pc = "loop" /\ i < maxBounces
    /\ LET sc == NearestHit(walls, currPos, currDir)
       IN  /\ sc.closest # Null
           /\ walls[sc.hitWall].type = "absorb"
           /\ closest' = sc.closest /\ minT' = sc.minT /\ hitWall' = sc.hitWall
           /\ points' = Append(points, sc.closest)
           /\ hitTarget' = (hitTarget \/ SegmentCircleIntersect(currPos, sc.closest, target))
           /\ pc' = IF hitTarget' THEN "done" ELSE "loop"
           /\ i' = IF hitTarget' THEN i ELSE i + 1
    /\ UNCHANGED <<walls, target, maxBounces, particles, start, dir, aim, currPos, currDir, nonTraceVars>>

\* Mutant of AbsorbStep: the absorber test of line 303 placed before the target test.
AbsorbStepBeforeTest ==
    /\ pc = "loop" /\ i < maxBounces
    /\ LET sc == NearestHit(walls, currPos, currDir)
       IN  /\ sc.closest # Null
           /\ walls[sc.hitWall].type = "absorb"
           /\ closest' = sc.closest /\ minT' = sc.minT /\ hitWall' = sc.hitWall
           /\ points' = Append(points, sc.closest)
    /\ pc' = "done"
    /\ UNCHANGED <<walls, target, maxBounces, particles, start, dir, aim, currPos, currDir, i,
                   hitTarget, nonTraceVars>>

\* The nearest wall absorbs: the hit point is pushed and the loop left (line 303).
AbsorbStep ==
    /\ InLoop
    /\ LET sc == Scan
       IN  /\ sc.closest # Null
           /\ walls[sc.hitWall].type = "absorb"
           /\ SetLocals(sc)
           /\ hitTarget' = TargetTest(sc)
           /\ points' = Append(points, sc.closest)
    /\ pc' = "done"
    /\ UNCHANGED <<walls, target, maxBounces, particles, start, dir, aim, currPos, currDir, i,
                   nonTraceVars>>

\* The nearest wall is a mirror (lines 306-319).
MirrorStep ==
    /\ InLoop
    /\ LET sc == Scan
       IN  /\ sc.closest # Null
           /\ walls[sc.hitWall].type = "mirror"
           /\ SetLocals(sc)
           /\ points' = Append(points, sc.closest)
           /\ currDir' = MirrorDirection(currDir, walls[sc.hitWall].normal)
           /\ currPos' = sc.closest
           /\ particles' = SpawnParticles(particles, sc.closest, ColorsWall)
           /\ EndIteration(TargetTest(sc))
    /\ UNCHANGED <<walls, target, maxBounces, start, dir, aim, nonTraceVars>>

\* The nearest wall is glass (lines 322-351).
GlassStep ==
    /\ InLoop
    /\ LET sc == Scan
       IN  /\ sc.closest # Null
           /\ walls[sc.hitWall].type = "glass"
           /\ SetLocals(sc)
           /\ points' = Append(points, sc.closest)
           /\ currDir' = GlassDirection(currDir, walls[sc.hitWall].normal)
           /\ currPos' = sc.closest
           /\ particles' = SpawnParticles(particles, sc.closest, "#fff")
           /\ EndIteration(TargetTest(sc))
    /\ UNCHANGED <<walls, target, maxBounces, start, dir, aim, nonTraceVars>>

\* The loop test fails: the bounces are used up and traceRay returns (line 364).
ReturnStep ==
    /\ pc = "loop"
    /\ i >= maxBounces
    /\ pc' = "done"
    /\ UNCHANGED <<walls, target, maxBounces, particles, start, dir, aim, points, currPos,
                   currDir, hitTarget, i, closest, minT, hitWall, nonTraceVars>>

\* What traceRay returns (line 364), once pc = "done".
Result == [path |-> points, success |-> hitTarget]

TraceNext ==
    \/ TraceCall
    \/ EscapeStep
    \/ AbsorbStep
    \/ MirrorStep
    \/ GlassStep
    \/ ReturnStep

TraceSpec == TraceInit /\ [][TraceNext]_vars

\* ------------------------------------------------------------------------
\* MazeGenerator.generate (src/js/maze.js)
\* ------------------------------------------------------------------------
\* Largest cols, rows and number of cells tried.
MazeCols == 3
MazeRows == 3
MazeCells == 9

\* The draws of Math.random() > breakChance and Math.random() > 0.9 for one
\* wall: the wall is dropped, or kept as a mirror, or kept as glass.
Draws == {"drop", "mirror", "glass"}

Cells(nc, nr) == (0..(nc - 1)) \X (0..(nr - 1))

\* A new cell (line 13).
NewCell == [visited |-> FALSE, top |-> TRUE, right |-> TRUE, bottom |-> TRUE, left |-> TRUE]

\* Mutant of Neighbours: the visited flags are not looked at.
NeighboursVisitedToo(g, nc, nr, x, y) ==
    (IF y > 0 THEN <<<<x, y - 1>>>> ELSE <<>>)
    \o (IF x < nc - 1 THEN <<<<x + 1, y>>>> ELSE <<>>)
    \o (IF y < nr - 1 THEN <<<<x, y + 1>>>> ELSE <<>>)
    \o (IF x > 0 THEN <<<<x - 1, y>>>> ELSE <<>>)

\* let N: the unvisited neighbours of the cell <<x, y>>, in the order of lines 25-28.
Neighbours(g, nc, nr, x, y) ==
    (IF y > 0 /\ ~g[<<x, y - 1>>].visited THEN <<<<x, y - 1>>>> ELSE <<>>)
    \o (IF x < nc - 1 /\ ~g[<<x + 1, y>>].visited THEN <<<<x + 1, y>>>> ELSE <<>>)
    \o (IF y < nr - 1 /\ ~g[<<x, y + 1>>].visited THEN <<<<x, y + 1>>>> ELSE <<>>)
    \o (IF x > 0 /\ ~g[<<x - 1, y>>].visited THEN <<<<x - 1, y>>>> ELSE <<>>)

\* Mutant of RemoveWall: only the current cell's flag is cleared.
RemoveWallOneSide(g, cur, nxt) ==
    IF nxt[1] > cur[1] THEN [g EXCEPT ![cur].right = FALSE]
    ELSE IF nxt[1] < cur[1] THEN [g EXCEPT ![cur].left = FALSE]
    ELSE IF nxt[2] > cur[2] THEN [g EXCEPT ![cur].bottom = FALSE]
    ELSE [g EXCEPT ![cur].top = FALSE]

\* The shared wall between cur and nxt removed on both cells (lines 33-36).
RemoveWall(g, cur, nxt) ==
    IF nxt[1] > cur[1] THEN [g EXCEPT ![cur].right = FALSE, ![nxt].left = FALSE]
    ELSE IF nxt[1] < cur[1] THEN [g EXCEPT ![cur].left = FALSE, ![nxt].right = FALSE]
    ELSE IF nxt[2] > cur[2] THEN [g EXCEPT ![cur].bottom = FALSE, ![nxt].top = FALSE]
    ELSE [g EXCEPT ![cur].top = FALSE, ![nxt].bottom = FALSE]

\* Mutant of RightWallStands: the last column is not left out.
RightWallStandsAtEdge(g, nc, c, r) == c < nc /\ g[<<c, r>>].right

\* c < cols-1 && cell.walls.right (line 47).
RightWallStands(g, nc, c, r) == c < nc - 1 /\ g[<<c, r>>].right

\* Mutant of BottomWallStands: the flag is not looked at.
BottomWallStandsAlways(g, nr, c, r) == r < nr - 1

\* r < rows-1 && cell.walls.bottom (line 50).
BottomWallStands(g, nr, c, r) == r < nr - 1 /\ g[<<c, r>>].bottom

\* The line pushed for the right wall of cell (c, r) (line 48).
RightLine(nc, nr, c, r, type) ==
    [x1 |-> Q(c + 1, nc), y1 |-> Q(r, nr), x2 |-> Q(c + 1, nc), y2 |-> Q(r + 1, nr),
     type |-> type]

\* The line pushed for the bottom wall of cell (c, r) (line 51).
BottomLine(nc, nr, c, r, type) ==
    [x1 |-> Q(c, nc), y1 |-> Q(r + 1, nr), x2 |-> Q(c + 1, nc), y2 |-> Q(r + 1, nr),
     type |-> type]

\* The walls that stand after carving and are in the grid's interior: the
\* ones for which Math.random() is drawn.
Standing(g, nc, nr) ==
    {<<c, r, "right">> : <<c, r>> \in {cl \in Cells(nc, nr) : RightWallStands(g, nc, cl[1], cl[2])}}
    \cup
    {<<c, r, "bottom">> : <<c, r>> \in {cl \in Cells(nc, nr) : BottomWallStands(g, nr, cl[1], cl[2])}}

\* The lines pushed by the loops of lines 43-53 from cell number k on (cells
\* counted row by row), for the draws dr.
RECURSIVE EmitFrom(_, _, _, _, _)
EmitFrom(g, nc, nr, k, dr) ==
    IF k >= nc * nr THEN <<>>
    ELSE LET c == k % nc
             r == k \div nc
             rgt == IF <<c, r, "right">> \in DOMAIN dr /\ dr[<<c, r, "right">>] # "drop"
                    THEN <<RightLine(nc, nr, c, r, dr[<<c, r, "right">>])>> ELSE <<>>
             btm == IF <<c, r, "bottom">> \in DOMAIN dr /\ dr[<<c, r, "bottom">>] # "drop"
                    THEN <<BottomLine(nc, nr, c, r, dr[<<c, r, "bottom">>])>> ELSE <<>>
         IN  rgt \o btm \o EmitFrom(g, nc, nr, k + 1, dr)

\* Arguments of generate that are not positive.
BadArgs == {-1, 0}

\* generate(cols, rows) is called (line 7): nothing is built yet.
MazeInit ==
    /\ cols \in BadArgs \cup 1..MazeCols
    /\ rows \in BadArgs \cup 1..MazeRows
    /\ cols * rows <= MazeCells
    /\ grid = <<>>
    /\ stack = <<>>
    /\ mazeWalls = <<>>
    /\ mazePc = "called"
    /\ mazeIter = 0
    /\ pushes = <<>>
    /\ pops = <<>>
    /\ walls = <<>>
    /\ target = Circle(0, 0, 15)
    /\ maxBounces = DefaultMaxBounces
    /\ particles = <<>>
    /\ start = Null
    /\ dir = Null
    /\ points = <<>>
    /\ currPos = Null
    /\ currDir = Null
    /\ hitTarget = FALSE
    /\ i = 0
    /\ closest = Null
    /\ minT = Infinity
    /\ hitWall = 0
    /\ pc = "idle"
    /\ aim = Null
    /\ emitter = VInt(0, 0)
    /\ attempts = 0
    /\ history = <<>>
    /\ sciCall = Null
    /\ PageIdle

\* Lines 8-19 with a cell (0,0): the grid is built, cell (0,0) is marked and
\* pushed on the stack.
BuildGrid ==
    /\ mazePc = "called"
    /\ cols >= 1 /\ rows >= 1
    /\ grid' = [cl \in Cells(cols, rows) |->
                  IF cl = <<0, 0>> THEN [NewCell EXCEPT !.visited = TRUE] ELSE NewCell]
    /\ stack' = <<<<0, 0>>>>
    /\ pushes' = [cl \in Cells(cols, rows) |-> IF cl = <<0, 0>> THEN 1 ELSE 0]
    /\ pops' = [cl \in Cells(cols, rows) |-> 0]
    /\ mazePc' = "carve"
    /\ UNCHANGED <<cols, rows, mazeWalls, mazeIter, nonMazeVars>>

\* Lines 8-19 without a cell (0,0).  With rows <= 0 the grid has no row and
\* grid[0][0] of line 18 reads a property of undefined; with cols <= 0 the rows
\* are empty, grid[0][0] is undefined and line 19 sets a property of it.  Both
\* throw a TypeError out of generate; no test of the arguments is made.
BuildGridThrows ==
    /\ mazePc = "called"
    /\ cols <= 0 \/ rows <= 0
    /\ mazePc' = "TypeError"
    /\ UNCHANGED <<cols, rows, grid, stack, mazeWalls, mazeCounts, nonMazeVars>>

\* One iteration of the while loop that finds an unvisited neighbour (lines 21-39).
CarveStep ==
    /\ mazePc = "carve"
    /\ stack # <<>>
    /\ LET cur == stack[Len(stack)]
           N == Neighbours(grid, cols, rows, cur[1], cur[2])
       IN  /\ N # <<>>
           /\ \E k \in 1..Len(N) :
                /\ grid' = [RemoveWall(grid, cur, N[k]) EXCEPT ![N[k]].visited = TRUE]
                /\ stack' = Append(stack, N[k])
                /\ pushes' = [pushes EXCEPT ![N[k]] = @ + 1]
    /\ mazeIter' = mazeIter + 1
    /\ UNCHANGED <<cols, rows, mazeWalls, mazePc, pops, nonMazeVars>>

\* One iteration of the while loop that finds none (line 40).
BacktrackStep ==
    /\ mazePc = "carve"
    /\ stack # <<>>
    /\ Neighbours(grid, cols, rows, stack[Len(stack)][1], stack[Len(stack)][2]) = <<>>
    /\ stack' = SubSeq(stack, 1, Len(stack) - 1)
    /\ pops' = [pops EXCEPT ![stack[Len(stack)]] = @ + 1]
    /\ mazeIter' = mazeIter + 1
    /\ UNCHANGED <<cols, rows, grid, mazeWalls, mazePc, pushes, nonMazeVars>>

\* The while loop ends with the stack empty.
CarveEnd ==
    /\ mazePc = "carve"
    /\ stack = <<>>
    /\ mazePc' = "emit"
    /\ UNCHANGED <<cols, rows, grid, stack, mazeWalls, mazeCounts, nonMazeVars>>

\* The loops of lines 43-53 and the return of line 54.
EmitStep ==
    /\ mazePc = "emit"
    /\ \E dr \in [Standing(grid, cols, rows) -> Draws] :
        mazeWalls' = EmitFrom(grid, cols, rows, 0, dr)
    /\ mazePc' = "done"
    /\ UNCHANGED <<cols, rows, grid, stack, mazeCounts, nonMazeVars>>

MazeNext ==
    \/ BuildGrid
    \/ BuildGridThrows
    \/ CarveStep
    \/ BacktrackStep
    \/ CarveEnd
    \/ EmitStep

MazeSpec == MazeInit /\ [][MazeNext]_vars

\* generate runs on: a step of it that can be taken is taken in the end.
MazeRunSpec == MazeSpec /\ WF_vars(MazeNext)

\* ------------------------------------------------------------------------
\* segmentCircleIntersect on its own
\* ------------------------------------------------------------------------
\* Largest coordinate of the segment end points tried.
CircleGrid == 3

CirclePoints == {VInt(x, y) : x \in 0..CircleGrid, y \in 0..CircleGrid}
CircleTargets ==
    {Circle(2, 1, 1), Circle(2, 2, 2), Circle(6, 0, 2), Circle(6, 0, 3), Circle(1, 4, 1),
     Circle(3, 3, 1), Circle(-1, 0, 1)}

\* Circles of radius 1 whose centre lies 1 - 1/1000, 1 and 1 + 1/1000 away from
\* the segments along y = 0, above their middle and beyond their end.
EdgeSegments == {<<VInt(0, 0), VInt(4, 0)>>, <<VInt(4, 0), VInt(0, 0)>>,
                 <<VInt(0, 0), VInt(0, 0)>>, <<VInt(4, 0), VInt(4, 0)>>}
EdgeTargets ==
    {[x |-> QInt(2), y |-> Q(999, 1000), r |-> QOne],
     [x |-> QInt(2), y |-> QOne, r |-> QOne],
     [x |-> QInt(2), y |-> Q(1001, 1000), r |-> QOne],
     [x |-> Q(4999, 1000), y |-> QZero, r |-> QOne],
     [x |-> QInt(5), y |-> QZero, r |-> QOne],
     [x |-> Q(5001, 1000), y |-> QZero, r |-> QOne],
     [x |-> QInt(4), y |-> Q(-999, 1000), r |-> QOne],
     [x |-> QInt(4), y |-> Q(-1001, 1000), r |-> QOne]}

CircleCases ==
    {<<p1, p2, c>> : p1 \in CirclePoints, p2 \in CirclePoints, c \in CircleTargets}
        \cup {<<sg[1], sg[2], c>> : sg \in EdgeSegments, c \in EdgeTargets}

\* The fields of a PhotonGame as the constructor sets them (lines 58-74),
\* no traceRay call made.
CircleInit ==
    /\ walls = <<>>
    /\ target = Circle(0, 0, 15)
    /\ maxBounces = DefaultMaxBounces
    /\ particles = <<>>
    /\ start = Null
    /\ dir = Null
    /\ points = <<>>
    /\ currPos = Null
    /\ currDir = Null
    /\ hitTarget = FALSE
    /\ i = 0
    /\ closest = Null
    /\ minT = Infinity
    /\ hitWall = 0
    /\ pc = "idle"
    /\ aim = Null
    /\ emitter = VInt(0, 0)
    /\ attempts = 0
    /\ history = <<>>
    /\ sciCall = Null
    /\ MazeIdle
    /\ PageIdle

\* segmentCircleIntersect(p1, p2, circle) returns result.
SegmentCircleCall ==
    /\ sciCall = Null
    /\ \E cs \in CircleCases :
        sciCall' = [p1 |-> cs[1], p2 |-> cs[2], circle |-> cs[3],
                    result |-> SegmentCircleIntersect(cs[1], cs[2], cs[3])]
    /\ UNCHANGED nonCircleVars

CircleNext == SegmentCircleCall

CircleSpec == CircleInit /\ [][CircleNext]_vars

\* ------------------------------------------------------------------------
\* addWall on its own (src/js/config.js, lines 249-256)
\* ------------------------------------------------------------------------
\* Number of calls of addWall followed.
MaxWallsAdded == 2

\* End points and types passed to addWall.
WallPoints == {VInt(0, 0), VInt(3, 0), VInt(0, 4), VInt(3, 4)}
WallTypes == {"mirror", "glass"}

\* A PhotonGame with an empty wall list (line 62; loadLevel, line 204).
WallInit ==
    /\ walls = <<>>
    /\ target = Circle(0, 0, 15)
    /\ maxBounces = DefaultMaxBounces
    /\ particles = <<>>
    /\ start = Null
    /\ dir = Null
    /\ points = <<>>
    /\ currPos = Null
    /\ currDir = Null
    /\ hitTarget = FALSE
    /\ i = 0
    /\ closest = Null
    /\ minT = Infinity
    /\ hitWall = 0
    /\ pc = "idle"
    /\ aim = Null
    /\ emitter = VInt(0, 0)
    /\ attempts = 0
    /\ history = <<>>
    /\ sciCall = Null
    /\ MazeIdle
    /\ PageIdle

\* addWall(x1, y1, x2, y2, type) (lines 249-256).
AddWallCall ==
    /\ Len(walls) < MaxWallsAdded
    /\ \E a \in WallPoints, b \in WallPoints, type \in WallTypes :
          walls' = AddWall(walls, a.x, a.y, b.x, b.y, type)
    /\ UNCHANGED <<target, maxBounces, particles, traceLocals, circleVars, gameVars, mazeVars, buttonVars,
                   pageVars>>

WallNext == AddWallCall

WallSpec == WallInit /\ [][WallNext]_vars

\* ------------------------------------------------------------------------
\* PhotonGame: levels, shots and the page (src/js/config.js)
\* ------------------------------------------------------------------------
\* CONFIG.complexMaxBounces
ComplexMaxBounces == 150

\* Largest level index loaded; number of shots followed after a load in the
\* first level, and in the later levels; largest number of pending timeouts
\* of handleWin.
MaxLevel == 3
MaxAttempts == 10
MaxShots == 2
MaxWinTimers == 2

\* Number of shots followed before the window's load event.
MaxEarlyShots == 1

\* The sizes the canvas takes (resize, lines 92-100): the width at its cap of
\* 1200, the height at its cap of 900.
CanvasSizes == {<<1200, 900>>}

\* this.staticLevels (lines 138-177), in fractions of the canvas.
StaticLevels ==
    <<[name |-> "RICOCHET",
       emitter |-> V(Q(1, 10), Q(1, 2)),
       target |-> V(Q(9, 10), Q(1, 2)),
       walls |-> <<<<Q(1, 2), Q(2, 5), Q(1, 2), Q(3, 5), "mirror">>,
                   <<Q(3, 10), Q(1, 10), Q(7, 10), Q(1, 10), "mirror">>,
                   <<Q(3, 10), Q(9, 10), Q(7, 10), Q(9, 10), "mirror">>>>],
      [name |-> "REFRACTION",
       emitter |-> V(Q(1, 10), Q(1, 2)),
       target |-> V(Q(9, 10), Q(2, 5)),
       walls |-> <<<<Q(2, 5), Q(1, 5), Q(3, 5), Q(1, 5), "glass">>,
                   <<Q(3, 5), Q(1, 5), Q(3, 5), Q(4, 5), "glass">>,
                   <<Q(3, 5), Q(4, 5), Q(2, 5), Q(4, 5), "glass">>,
                   <<Q(2, 5), Q(4, 5), Q(2, 5), Q(1, 5), "glass">>,
                   <<Q(4, 5), Q(1, 2), Q(4, 5), QInt(1), "mirror">>>>],
      [name |-> "PRISM",
       emitter |-> V(Q(1, 10), Q(4, 5)),
       target |-> V(Q(9, 10), Q(1, 5)),
       walls |-> <<<<Q(3, 10), Q(3, 10), Q(7, 10), Q(3, 10), "glass">>,
                   <<Q(7, 10), Q(3, 10), Q(1, 2), Q(7, 10), "glass">>,
                   <<Q(1, 2), Q(7, 10), Q(3, 10), Q(3, 10), "glass">>>>]>>

\* wl.x1 * w, wl.y1 * h, wl.x2 * w, wl.y2 * h, wl.type for the walls of a
\* static level (line 222).
ScaleWalls(list, w, h) ==
    [k \in DOMAIN list |->
        <<QMul(list[k][1], QInt(w)), QMul(list[k][2], QInt(h)),
          QMul(list[k][3], QInt(w)), QMul(list[k][4], QInt(h)), list[k][5]>>]

\* The same for the lines of a maze (line 241).
ScaleLines(lines, w, h) ==
    [k \in DOMAIN lines |->
        <<QMul(lines[k].x1, QInt(w)), QMul(lines[k].y1, QInt(h)),
          QMul(lines[k].x2, QInt(w)), QMul(lines[k].y2, QInt(h)), lines[k].type>>]

\* cols and rows of the maze of a level (lines 227-230).
MazeSize(index) ==
    LET complexity == index - Len(StaticLevels)
    IN  IF complexity >= 2 THEN <<22, 14>>
        ELSE IF complexity >= 1 THEN <<16, 9>>
        ELSE <<10, 6>>

\* Results of MazeGenerator.generate(nc, nr) tried: no line kept, and the
\* bottom wall of cell (0,0) alone, kept as a mirror (the carving went right
\* from cell (0,0) first, and every other standing wall was dropped).
MazeOutcomes(nc, nr) == {<<>>, <<BottomLine(nc, nr, 0, 0, "mirror")>>}

\* this.walls, this.maxBounces, this.emitter and this.target as loadLevel
\* builds them for the level index on a canvas of w by h, the maze generator
\* having returned maze (lines 204-242).
LevelMap(index, w, h, maze) ==
    IF index < Len(StaticLevels)
    THEN LET L == StaticLevels[index + 1]
         IN  [walls |-> BuildWalls(<<>>, Border(w, h, "mirror") \o ScaleWalls(L.walls, w, h)),
              maxBounces |-> DefaultMaxBounces,
              emitter |-> V(QMul(L.emitter.x, QInt(w)), QMul(L.emitter.y, QInt(h))),
              target |-> [x |-> QMul(L.target.x, QInt(w)), y |-> QMul(L.target.y, QInt(h)),
                          r |-> QInt(15)]]
    ELSE LET nc == MazeSize(index)[1]
             nr == MazeSize(index)[2]
             cellW == Q(w, nc)
             cellH == Q(h, nr)
         IN  [walls |-> BuildWalls(<<>>, Border(w, h, "mirror") \o ScaleLines(maze, w, h)),
              maxBounces |-> ComplexMaxBounces,
              emitter |-> V(QMul(cellW, Q(1, 2)), QMul(cellH, Q(1, 2))),
              target |-> [x |-> QSub(QInt(w), QMul(cellW, Q(1, 2))),
                          y |-> QSub(QInt(h), QMul(cellH, Q(1, 2))),
                          r |-> QMul(QMin(cellW, cellH), Q(3, 10))]]

\* index is a key of this.levelRecords; this.levelRecords[index] when it is;
\* and this.levelRecords after this.levelRecords[index] = v.
HasRecord(records, index) == \E p \in records : p[1] = index
RecordOf(records, index) == (CHOOSE p \in records : p[1] = index)[2]
SetRecord(records, index, v) == {p \in records : p[1] # index} \cup {<<index, v>>}

\* this.levelRecords[index] || Infinity (line 192): undefined and 0 are both
\* falsy.
RecordOrInfinity(records, index) ==
    IF ~HasRecord(records, index) \/ RecordOf(records, index) = 0 THEN Infinity
    ELSE QInt(RecordOf(records, index))

\* calculatePathLength(points) (lines 452-457): the floor of the sum of the
\* distances between successive points; PathSum is the sum from point k on.
RECURSIVE PathSum(_, _)
PathSum(pts, k) ==
    IF k >= Len(pts) THEN QZero
    ELSE QAdd(Vec2Dist(pts[k], pts[k + 1]), PathSum(pts, k + 1))
CalculatePathLength(pts) == QFloor(PathSum(pts, 1))

\* Mutant of LoadLevel: this.maxBounces is left as it is.
LoadLevelKeepBounces(index, keepMap, w, h) ==
    /\ levelIndex' = index
    /\ history' = <<>>
    /\ attempts' = 0
    /\ particles' = <<>>
    /\ currentLevelBest' = RecordOrInfinity(levelRecords, index)
    /\ winOverlay' = FALSE
    /\ IF keepMap THEN UNCHANGED <<walls, maxBounces, emitter, target>>
       ELSE \E maze \in MazeOutcomes(MazeSize(index)[1], MazeSize(index)[2]) :
               \E m \in {LevelMap(index, w, h, maze)} :
                   /\ walls' = m.walls
                   /\ maxBounces' = maxBounces
                   /\ emitter' = m.emitter
                   /\ target' = m.target

\* loadLevel(index, keepMap) (lines 184-244) with this.width = w and
\* this.height = h.
LoadLevel(index, keepMap, w, h) ==
    /\ levelIndex' = index
    /\ history' = <<>>
    /\ attempts' = 0
    /\ particles' = <<>>
    /\ currentLevelBest' = RecordOrInfinity(levelRecords, index)
    /\ winOverlay' = FALSE
    /\ IF keepMap THEN UNCHANGED <<walls, maxBounces, emitter, target>>
       ELSE \E maze \in MazeOutcomes(MazeSize(index)[1], MazeSize(index)[2]) :
               \E m \in {LevelMap(index, w, h, maze)} :
                   /\ walls' = m.walls
                   /\ maxBounces' = m.maxBounces
                   /\ emitter' = m.emitter
                   /\ target' = m.target

\* The rest of an iteration of the bounce loop of traceRay once a wall is hit
\* (lines 295-352, 362): the hit point sc.closest on the wall, with ht2 the value of
\* hitTarget after the test of the segment against the target.
WallStep(st, sc, wall, ht2) ==
    IF wall.type = "absorb"
    THEN [st EXCEPT !.path = Append(st.path, sc.closest), !.success = ht2, !.done = TRUE]
    ELSE [k |-> st.k + 1, path |-> Append(st.path, sc.closest), pos |-> sc.closest,
          d |-> IF wall.type = "mirror" THEN MirrorDirection(st.d, wall.normal)
                ELSE GlassDirection(st.d, wall.normal),
          success |-> ht2,
          particles |-> SpawnParticles(st.particles, sc.closest,
                           IF wall.type = "mirror" THEN ColorsWall ELSE "#fff"),
          done |-> ht2]

\* An iteration after the scan of the walls sc (lines 295-362): the escape to
\* the far point when nothing is hit, and the step at the hit wall otherwise.
ScanStep(ws, tg, st, sc) ==
    IF sc.closest = Null
    THEN [st EXCEPT !.path = Append(st.path,
                        V(QAdd(st.pos.x, QMul(st.d.x, FarDist)),
                          QAdd(st.pos.y, QMul(st.d.y, FarDist)))),
                    !.done = TRUE]
    ELSE WallStep(st, sc, ws[sc.hitWall],
                  st.success \/ SegmentCircleIntersect(st.pos, sc.closest, tg))

\* One iteration of the bounce loop of traceRay (lines 282-364) on the
\* loop's variables st: the iteration count k, the path, the position pos,
\* the direction d, hitTarget as success, the particle list, and done once the
\* loop has been left.
TraceIteration(ws, tg, mb, st) ==
    IF st.done \/ st.k >= mb THEN [st EXCEPT !.done = TRUE]
    ELSE ScanStep(ws, tg, st, NearestHit(ws, st.pos, st.d))

\* n iterations of the loop, one after the other: the first half of them,
\* then the rest from the state half they end in unless the loop has been left.
RECURSIVE TraceIterations(_, _, _, _, _)
RECURSIVE TraceRest(_, _, _, _, _)
TraceIterations(ws, tg, mb, st, n) ==
    IF n = 0 THEN st
    ELSE IF n = 1 THEN TraceIteration(ws, tg, mb, st)
    ELSE TraceRest(ws, tg, mb, TraceIterations(ws, tg, mb, st, n \div 2), n - n \div 2)
TraceRest(ws, tg, mb, half, n) ==
    IF half.done THEN half ELSE TraceIterations(ws, tg, mb, half, n)

\* What traceRay returns and leaves in this.particles, from the loop's
\* variables at its end (line 364).
TraceResult(end) == [path |-> end.path, success |-> end.success, particles |-> end.particles]

\* traceRay(s, d) as one computation (lines 275-365), with the particles it
\* pushes on the list ps.
TraceRay(ws, tg, mb, ps, s, d) ==
    TraceResult(TraceIterations(ws, tg, mb,
                    [k |-> 0, path |-> <<s>>, pos |-> s, d |-> Vec2Normalize(d),
                     success |-> FALSE, particles |-> ps, done |-> FALSE],
                    IF mb > 0 THEN mb ELSE 0))

\* k calls of spawnParticles at the target, the 50 of handleWin (lines
\* 469-470): each pushes what one call pushes.
WinParticles(ps, tg, k) ==
    LET one == SpawnParticles(<<>>, tg, "#0f0")
    IN  ps \o [j \in 1..(k * Len(one)) |-> one[((j - 1) % Len(one)) + 1]]

\* Mutant of Redirects: the success of the shot is not looked at.
RedirectsOnSuccessToo(success, n) == n >= 10

\* The test of lines 441-442 on the shot's success and this.attempts.
Redirects(success, n) == ~success /\ n >= 10

\* Mutant of PushHistory: nothing is popped.
PushHistoryNoPop(h, entry) == <<entry>> \o h

\* this.history after the unshift and the pop of lines 430-436.
PushHistory(h, entry) ==
    LET h2 == <<entry>> \o h
    IN  IF Len(h2) > 10 THEN SubSeq(h2, 1, Len(h2) - 1) ELSE h2

\* The positions the mouse is moved to in the level index, with the emitter at
\* e: in the first level the middle of the upper mirror, (0.5 w, 0.1 h) for
\* the emitter at (0.1 w, 0.5 h), and, the emitter being less than a pixel
\* from the left border, the point of that border beside it; none in the
\* other levels.
GameMice(index, e) ==
    IF index = 0
    THEN {V(QMul(QInt(5), e.x), QMul(Q(1, 5), e.y))}
            \cup (IF QLt(e.x, QOne) THEN {V(QZero, e.y)} ELSE {})
    ELSE {}

\* The number of shots followed after a load of the level index.
ShotLimit(index) == IF index = 0 THEN MaxAttempts ELSE MaxShots

\* The mouse positions from which a shot is traced: the constructor's (0, 0)
\* and the positions above.
Aimed(index, e, m) == m = VInt(0, 0) \/ m \in GameMice(index, e)

\* new PhotonGame() (lines 39-86): resize with no wall yet, initLevels,
\* loadLevel(0), bindEvents.  The load event is still to come.
Construct(size, resume) ==
    /\ canvas = size
    /\ levelIndex = 0
    /\ attempts = 0
    /\ history = <<>>
    /\ particles = <<>>
    /\ mouse = VInt(0, 0)
    /\ winOverlay = FALSE
    /\ winTimers = 0
    /\ page = "game"
    /\ loadEvent = IF resume THEN "pending-resume" ELSE "pending"
    /\ currentLevelBest = Infinity
    /\ levelRecords = {}
    /\ wonLengths = {}
    /\ \E m \in {LevelMap(0, size[1], size[2], <<>>)} :
          /\ walls = m.walls
          /\ maxBounces = m.maxBounces
          /\ emitter = m.emitter
          /\ target = m.target

\* No call of traceRay, segmentCircleIntersect or generate is modelled step by
\* step.
NoCall ==
    /\ start = Null
    /\ dir = Null
    /\ points = <<>>
    /\ currPos = Null
    /\ currDir = Null
    /\ hitTarget = FALSE
    /\ i = 0
    /\ closest = Null
    /\ minT = Infinity
    /\ hitWall = 0
    /\ pc = "idle"
    /\ aim = Null
    /\ sciCall = Null
    /\ MazeIdle
    /\ script = 1
    /\ ButtonIdle

GameInit ==
    /\ \E size \in CanvasSizes, resume \in BOOLEAN : Construct(size, resume)
    /\ NoCall

\* The load listener of the launcher (part_001, lines 6-15).
LoadEvent ==
    /\ page = "game"
    /\ loadEvent # "fired"
    /\ loadEvent' = "fired"
    /\ attempts' = IF loadEvent = "pending-resume" THEN 0 ELSE attempts
    /\ UNCHANGED <<walls, target, maxBounces, particles, emitter, history, levelIndex, canvas,
                   mouse, winOverlay, winTimers, page, traceLocals, circleVars, mazeVars, buttonVars,
                   scoreVars>>

\* updateMouse (lines 110-116).
MouseMove ==
    /\ page = "game"
    /\ \E m \in GameMice(levelIndex, emitter) : m # mouse /\ mouse' = m
    /\ UNCHANGED <<walls, target, maxBounces, particles, emitter, attempts, history,
                   levelIndex, canvas, winOverlay, winTimers, page, loadEvent, traceLocals,
                   circleVars, mazeVars, buttonVars,
                   scoreVars>>

\* The records kept by shootRay for a shot of path length rayLen (lines
\* 418-424); the total this.totalSessionDistance and the texts of the
\* statistics panel are not followed.
ScoreShot(success, rayLen) ==
    /\ wonLengths' = IF success THEN wonLengths \cup {<<levelIndex, rayLen>>} ELSE wonLengths
    /\ IF success /\ QLt(QInt(rayLen), currentLevelBest)
       THEN /\ currentLevelBest' = QInt(rayLen)
            /\ levelRecords' = SetRecord(levelRecords, levelIndex, rayLen)
       ELSE UNCHANGED <<currentLevelBest, levelRecords>>

\* shootRay (lines 403-448) with result what its call of traceRay returns:
\* the attempt counted, the shot recorded, handleWin on a success, and the
\* redirect.
ShootRay(result) ==
    /\ attempts' = attempts + 1
    /\ history' = PushHistory(history, [path |-> result.path, success |-> result.success,
                      color |-> IF result.success THEN "#0f0" ELSE "#ffd400"])
    /\ IF result.success
       THEN /\ winTimers < MaxWinTimers
            /\ particles' = WinParticles(result.particles, target, 50)
            /\ winTimers' = winTimers + 1
       ELSE /\ particles' = result.particles
            /\ winTimers' = winTimers
    /\ page' = IF Redirects(result.success, attempts + 1) THEN "button" ELSE page
    /\ ScoreShot(result.success, CalculatePathLength(result.path))

\* The shoot handler (lines 121-126) and shootRay (lines 403-448), for a
\* click on the canvas.
ShootClick ==
    /\ page = "game"
    /\ ~winOverlay
    /\ attempts < ShotLimit(levelIndex)
    /\ loadEvent = "fired" \/ attempts < MaxEarlyShots
    /\ Aimed(levelIndex, emitter, mouse)
    /\ ShootRay(TraceRay(walls, target, maxBounces, particles, emitter,
                         ShootRayDir(mouse, emitter)))
    /\ UNCHANGED <<walls, target, maxBounces, emitter, levelIndex, canvas, mouse, winOverlay,
                   loadEvent, traceLocals, circleVars, mazeVars, buttonVars>>

\* A timeout of handleWin runs (line 478).
WinTimer ==
    /\ page = "game"
    /\ winTimers > 0
    /\ winTimers' = winTimers - 1
    /\ winOverlay' = TRUE
    /\ UNCHANGED <<walls, target, maxBounces, particles, emitter, attempts, history,
                   levelIndex, canvas, mouse, page, loadEvent, traceLocals, circleVars,
                   mazeVars, buttonVars,
                   scoreVars>>

\* nextLevel (lines 501-503).
NextLevel ==
    /\ page = "game"
    /\ levelIndex < MaxLevel
    /\ LoadLevel(levelIndex + 1, FALSE, canvas[1], canvas[2])
    /\ UNCHANGED <<canvas, mouse, winTimers, page, loadEvent, traceLocals, circleVars, mazeVars, buttonVars,
                   levelRecords, wonLengths>>

\* resetLevel (lines 506-508).
ResetLevel ==
    /\ page = "game"
    /\ LoadLevel(levelIndex, FALSE, canvas[1], canvas[2])
    /\ UNCHANGED <<canvas, mouse, winTimers, page, loadEvent, traceLocals, circleVars, mazeVars, buttonVars,
                   levelRecords, wonLengths>>

\* Mutant of RetryLevel: the map is built again.
RetryLevelNewMap ==
    /\ page = "game"
    /\ LoadLevel(levelIndex, FALSE, canvas[1], canvas[2])
    /\ UNCHANGED <<canvas, mouse, winTimers, page, loadEvent, traceLocals, circleVars, mazeVars, buttonVars,
                   levelRecords, wonLengths>>

\* retryLevel (lines 511-513).
RetryLevel ==
    /\ page = "game"
    /\ LoadLevel(levelIndex, TRUE, canvas[1], canvas[2])
    /\ UNCHANGED <<canvas, mouse, winTimers, page, loadEvent, traceLocals, circleVars, mazeVars, buttonVars,
                   levelRecords, wonLengths>>

\* clearHistory (lines 519-521).
ClearHistory ==
    /\ page = "game"
    /\ history' = <<>>
    /\ UNCHANGED <<walls, target, maxBounces, particles, emitter, attempts, levelIndex, canvas,
                   mouse, winOverlay, winTimers, page, loadEvent, traceLocals, circleVars,
                   mazeVars, buttonVars,
                   scoreVars>>

\* resize (lines 91-104) on a resize event of the window: the canvas takes
\* the size and, walls being there, the level is loaded again with keepMap.
Resize ==
    /\ page = "game"
    /\ \E size \in CanvasSizes : canvas' = size
    /\ IF Len(walls) > 0 THEN LoadLevel(levelIndex, TRUE, canvas'[1], canvas'[2])
       ELSE UNCHANGED <<walls, target, maxBounces, particles, emitter, attempts, history,
                        levelIndex, winOverlay, currentLevelBest>>
    /\ UNCHANGED <<mouse, winTimers, page, loadEvent, levelRecords, wonLengths, traceLocals,
                   circleVars, mazeVars, buttonVars>>

\* The game's page is opened again after the redirect: a new PhotonGame.
PageLoad ==
    /\ page = "button"
    /\ \E size \in CanvasSizes, resume \in BOOLEAN :
          \E m \in {LevelMap(0, size[1], size[2], <<>>)} :
              /\ canvas' = size
              /\ loadEvent' = IF resume THEN "pending-resume" ELSE "pending"
              /\ walls' = m.walls
              /\ maxBounces' = m.maxBounces
              /\ emitter' = m.emitter
              /\ target' = m.target
    /\ levelIndex' = 0
    /\ attempts' = 0
    /\ history' = <<>>
    /\ particles' = <<>>
    /\ mouse' = VInt(0, 0)
    /\ winOverlay' = FALSE
    /\ winTimers' = 0
    /\ page' = "game"
    /\ currentLevelBest' = Infinity
    /\ levelRecords' = {}
    /\ wonLengths' = {}
    /\ UNCHANGED <<traceLocals, circleVars, mazeVars, buttonVars>>

GameNext ==
    \/ LoadEvent
    \/ MouseMove
    \/ ShootClick
    \/ WinTimer
    \/ NextLevel
    \/ ResetLevel
    \/ RetryLevel
    \/ ClearHistory
    \/ Resize
    \/ PageLoad

GameSpec == GameInit /\ [][GameNext]_vars

\* The game in a window a few pixels wide: resize (lines 94-100) sets the
\* canvas to 0.98 and 0.9 of the window's inner size with no lower limit, here
\* to 5 by 5 (the emitter of the first levels is half a pixel from the left
\* border, and the target's circle of radius 15 covers the whole canvas).
SmallCanvasSizes == {<<5, 5>>}

SmallInit ==
    /\ \E size \in SmallCanvasSizes, resume \in BOOLEAN : Construct(size, resume)
    /\ NoCall

SmallNext ==
    \/ LoadEvent
    \/ MouseMove
    \/ ShootClick
    \/ WinTimer
    \/ NextLevel
    \/ ResetLevel
    \/ RetryLevel
    \/ ClearHistory

SmallSpec == SmallInit /\ [][SmallNext]_vars

\* ------------------------------------------------------------------------
\* The button mini-game (src/js/button.js)
\* ------------------------------------------------------------------------
\* button.js holds the script twice, lines 1-273 and lines 277-506.  The two
\* copies differ in tryDodge: the second clears state.dodgeTimer on an 'enter'
\* (line 357), the first does not.  Either copy may be the one that runs.
Scripts == {1, 2}

\* Largest number of timeouts of tryDodge followed.
MaxTimeouts == 3

\* Values of state.mouseSpeed tried, in hundredths: 0, the limit 0.1 of
\* handleClick, a speed between it and the limit 0.15 of tryDodge, and one
\* above both.
Speeds == {0, 10, 12, 20}
ClickSpeedLimit == 10
DodgeSpeedLimit == 15

\* Values of Math.random() * 80 + 10 tried for the two coordinates of
\* moveButton, beside the first position (50, 50).
Positions == {<<10, 10>>, <<50, 50>>, <<89, 30>>}

ButtonInit ==
    /\ script \in Scripts
    /\ ButtonIdle
    /\ walls = <<>>
    /\ target = Circle(0, 0, 15)
    /\ maxBounces = DefaultMaxBounces
    /\ particles = <<>>
    /\ emitter = VInt(0, 0)
    /\ attempts = 0
    /\ history = <<>>
    /\ levelIndex = 0
    /\ canvas = <<CanvasW, CanvasH>>
    /\ mouse = VInt(0, 0)
    /\ winOverlay = FALSE
    /\ winTimers = 0
    /\ page = "button"
    /\ loadEvent = "pending"
    /\ currentLevelBest = Infinity
    /\ levelRecords = {}
    /\ wonLengths = {}
    /\ start = Null
    /\ dir = Null
    /\ points = <<>>
    /\ currPos = Null
    /\ currDir = Null
    /\ hitTarget = FALSE
    /\ i = 0
    /\ closest = Null
    /\ minT = Infinity
    /\ hitWall = 0
    /\ pc = "idle"
    /\ aim = Null
    /\ sciCall = Null
    /\ MazeIdle

\* What the button game leaves alone.
nonButtonVars == <<traceVars, circleVars, gameVars, mazeVars, pageVars>>

\* The pending timeouts ts after clearTimeout(id).
ClearTimeout(ts, id) == ts \ {id}

\* moveButton (lines 97-103, 346-352) with the timeouts ts pending: the
\* timeout of state.dodgeTimer is cleared and a position is drawn.
MoveButton(ts) ==
    /\ timeouts' = ClearTimeout(ts, dodgeTimer)
    /\ \E p \in Positions : position' = p

\* Mutant of LevelAfter: the level goes up one click early.
LevelAfterEarly(lv, n) ==
    IF lv = 0 THEN 1
    ELSE IF lv = 1 /\ n >= 3 THEN 2
    ELSE IF lv = 2 /\ n >= 6 THEN 3
    ELSE IF lv = 3 /\ n >= 8 THEN 4
    ELSE lv

\* state.level after the thresholds of handleClick (lines 161-164, 405-408)
\* for the level lv below 4 and the click count n just counted.
LevelAfter(lv, n) ==
    IF lv = 0 THEN 1
    ELSE IF lv = 1 /\ n > 3 THEN 2
    ELSE IF lv = 2 /\ n > 6 THEN 3
    ELSE IF lv = 3 /\ n > 8 THEN 4
    ELSE lv

\* tryDodge clears state.dodgeTimer first (line 357, in the second copy only).
EnterClears(type) == script = 2 /\ type = "enter"

\* tryDodge(type) (lines 110-138, 354-386).
TryDodge(type) ==
    IF won \/ level = 0
    THEN UNCHANGED <<position, dodgeTimer, timeouts, timeoutCount>>
    ELSE \E ts \in {IF EnterClears(type) THEN ClearTimeout(timeouts, dodgeTimer) ELSE timeouts} :
            IF level = 1 /\ type = "enter"
            THEN /\ timeoutCount < MaxTimeouts
                 /\ timeoutCount' = timeoutCount + 1
                 /\ dodgeTimer' = timeoutCount + 1
                 /\ timeouts' = ts \cup {timeoutCount + 1}
                 /\ position' = position
            ELSE /\ \/ /\ \/ level = 4 /\ mouseSpeed > DodgeSpeedLimit
                          \/ level = 2
                          \/ level = 3
                       /\ MoveButton(ts)
                    \/ /\ \/ level = 4 /\ mouseSpeed <= DodgeSpeedLimit
                          \/ level = 1
                          \/ level = 2 /\ type = "move"
                       /\ timeouts' = ts
                       /\ position' = position
                 /\ UNCHANGED <<dodgeTimer, timeoutCount>>

\* The mouseenter and mousemove listeners of the button (lines 78-79, 333-334).
Hover ==
    /\ TryDodge("enter")
    /\ UNCHANGED <<script, level, clickCount, won, mouseSpeed, nonButtonVars>>

Move ==
    /\ TryDodge("move")
    /\ UNCHANGED <<script, level, clickCount, won, mouseSpeed, nonButtonVars>>

\* handleClick (lines 145-173, 388-418), the mousedown listener of the button.
Click ==
    /\ IF won
       THEN UNCHANGED <<level, clickCount, won, position, timeouts>>
       ELSE IF level = 4 /\ mouseSpeed > ClickSpeedLimit
       THEN /\ MoveButton(timeouts)
            /\ UNCHANGED <<level, clickCount, won>>
       ELSE /\ clickCount' = clickCount + 1
            /\ level' = LevelAfter(level, clickCount + 1)
            /\ won' = (level = 4)
            /\ IF level = 4 \/ LevelAfter(level, clickCount + 1) # level
               THEN /\ timeouts' = ClearTimeout(timeouts, dodgeTimer)
                    /\ position' = position
               ELSE MoveButton(ClearTimeout(timeouts, dodgeTimer))
    /\ UNCHANGED <<script, mouseSpeed, dodgeTimer, timeoutCount, nonButtonVars>>

\* resetGame (lines 191-204, 434-447), the click listener of the restart
\* button.
ResetGame ==
    /\ level' = 0
    /\ clickCount' = 0
    /\ won' = FALSE
    /\ position' = <<50, 50>>
    /\ mouseSpeed' = 0
    /\ UNCHANGED <<script, dodgeTimer, timeouts, timeoutCount, nonButtonVars>>

\* The mousemove listener of the window (lines 54-75, 310-331), more than
\* 20 ms after the last reading: a new speed.
SpeedReading ==
    /\ \E v \in Speeds : v # mouseSpeed /\ mouseSpeed' = v
    /\ UNCHANGED <<script, level, clickCount, won, position, dodgeTimer, timeouts, timeoutCount,
                   nonButtonVars>>

\* A timeout of tryDodge runs moveButton (lines 123, 369).
DodgeTimeout ==
    /\ \E id \in timeouts : MoveButton(timeouts \ {id})
    /\ UNCHANGED <<script, level, clickCount, won, mouseSpeed, dodgeTimer, timeoutCount,
                   nonButtonVars>>

ButtonNext ==
    \/ Hover
    \/ Move
    \/ Click
    \/ ResetGame
    \/ SpeedReading
    \/ DodgeTimeout

ButtonSpec == ButtonInit /\ [][ButtonNext]_vars

\* ------------------------------------------------------------------------
\* Geometry in which the properties are stated
\* ------------------------------------------------------------------------
Cross(a, b) == QSub(QMul(a.x, b.y), QMul(a.y, b.x))
QSq(a) == QMul(a, a)

\* The centre of circle c lies less than c.r away from the segment p1-p2:
\* measured to the end point the centre lies beyond, and to the line otherwise.
PassesWithin(p1, p2, c) ==
    LET e == Vec2Sub(p2, p1)
        f == V(QSub(c.x, p1.x), QSub(c.y, p1.y))
        g == V(QSub(c.x, p2.x), QSub(c.y, p2.y))
        len2 == Vec2Dot(e, e)
        along == Vec2Dot(f, e)
        r2 == QSq(c.r)
    IN  /\ QLt(QZero, c.r)
        /\ IF len2 = QZero \/ QLe(along, QZero) THEN QLt(Vec2Dot(f, f), r2)
           ELSE IF QLe(len2, along) THEN QLt(Vec2Dot(g, g), r2)
           ELSE QLt(QSq(Cross(e, f)), QMul(r2, len2))

\* Point p lies on the segment a-b.
OnSegment(p, a, b) ==
    LET e == Vec2Sub(b, a)
        f == Vec2Sub(p, a)
    IN  /\ Cross(e, f) = QZero
        /\ QLe(QZero, Vec2Dot(f, e))
        /\ QLe(Vec2Dot(f, e), Vec2Dot(e, e))

\* The ray from pos along d meets the line of wall w at pos + RayParam * d,
\* which is w.a + SegParam * (w.b - w.a); RayDet is the determinant of the system.
RayDet(d, w) == Cross(d, Vec2Sub(w.b, w.a))
RayParam(pos, d, w) == QDiv(Cross(Vec2Sub(w.a, pos), Vec2Sub(w.b, w.a)), RayDet(d, w))
SegParam(pos, d, w) == QDiv(Cross(Vec2Sub(w.a, pos), d), RayDet(d, w))

\* Wall w counts as intersected by the ray from pos along d.
Intersected(pos, d, w) ==
    /\ QLe(Q(1, 100000), QAbs(RayDet(d, w)))
    /\ QLe(QZero, SegParam(pos, d, w))
    /\ QLe(SegParam(pos, d, w), QOne)
    /\ QLt(Q(1, 100), RayParam(pos, d, w))

\* This step runs one iteration of the bounce loop.
IterationStep == pc = "loop" /\ points' # points

\* This step runs an iteration that found a wall.
HitStep == IterationStep /\ hitWall' # 0

\* traceRay has returned and its last iteration pushed the far point.
Escaped == pc = "done" /\ hitWall = 0 /\ Len(points) >= 2

\* The number of loop iterations run so far.
Iterations == Len(points) - 1

\* ------------------------------------------------------------------------
\* Properties
\* ------------------------------------------------------------------------

\* At the loop test one of the steps of traceRay can be taken.
LoopStepEnabled ==
    \/ i >= maxBounces
    \/ LET sc == Scan
       IN  \/ sc.closest = Null
           \/ walls[sc.hitWall].type \in {"absorb", "mirror", "glass"}

\* A call of traceRay made by shootRay.
FromShootRay == aim # Null

\* C1: traceRay terminates, having run at most maxBounces iterations of its
\* bounce loop: at the loop test a step is always possible, every step from
\* there returns or counts one more bounce, and the count never passes
\* maxBounces.  When the bounces run out (the loop test fails) it returns the
\* path accumulated so far, unchanged, with success = false.
C1_TerminatesWithinMaxBounces ==
    /\ [](pc = "loop" => LoopStepEnabled)
    /\ [][pc = "loop" => pc' = "done" \/ (pc' = "loop" /\ i' = i + 1)]_vars
    /\ [][pc = "done" => UNCHANGED vars]_vars
    /\ [](pc # "idle" /\ maxBounces >= 0 => Iterations <= maxBounces /\ i <= maxBounces)
    /\ [](pc = "done" /\ i = maxBounces => ~Result.success /\ Iterations = maxBounces)
    /\ [][pc = "loop" /\ i >= maxBounces =>
            pc' = "done" /\ points' = points /\ hitTarget' = hitTarget]_vars

\* A trace that used up three or more bounces and returned from the loop test.
C1_Witness ==
    pc = "done" /\ i = maxBounces /\ maxBounces >= 3 /\ Len(points) = maxBounces + 1

\* C2: once a segment to the nearest wall hit passes within the target radius
\* the trace is over: the hit point is the last point of the path, and in a
\* result with success = true the last segment is the only one that passes
\* within the target radius.
C2_StopsAtSuccess ==
    hitTarget =>
        /\ pc = "done"
        /\ points[Len(points)] = closest
        /\ \A k \in 1..(Len(points) - 1) :
              PassesWithin(points[k], points[k + 1], target) <=> k = Len(points) - 1

\* A successful trace of two or more segments that had bounces left.
C2_Witness == pc = "done" /\ hitTarget /\ Len(points) >= 3 /\ i + 1 < maxBounces

\* C3: an iteration whose nearest wall absorbs pushes the hit point, which lies
\* on that wall, and ends the trace at once without counting a bounce; success
\* is then true only if this last segment passed within the target radius.
C3_AbsorbEndsTrace ==
    [][HitStep /\ walls[hitWall'].type = "absorb" =>
          /\ pc' = "done"
          /\ i' = i
          /\ points' = Append(points, closest')
          /\ OnSegment(closest', walls[hitWall'].a, walls[hitWall'].b)
          /\ (hitTarget' <=> PassesWithin(currPos, closest', target))]_vars

\* An absorbed trace with bounces left and success = false whose target lies
\* further along the same direction, behind the absorber.
C3_Witness ==
    /\ pc = "done" /\ hitWall # 0 /\ ~hitTarget /\ i + 1 < maxBounces
    /\ walls[hitWall].type = "absorb"
    /\ PassesWithin(closest, Vec2Add(closest, Vec2Mult(currDir, QInt(2000))), target)

\* C4: in every iteration that finds a wall, a segment from the current position
\* to the hit point that passes within the target radius sets success, whatever
\* the type of the wall.
C4_TargetTestBeforeDispatch ==
    [][HitStep /\ PassesWithin(currPos, closest', target) => hitTarget']_vars

\* A segment that clips the target and ends on an absorber: success = true.
C4_Witness == pc = "done" /\ hitTarget /\ hitWall # 0 /\ walls[hitWall].type = "absorb"

\* The segments of the path that end on a wall: all but a final one to the far point.
HitSegments == IF Escaped THEN Len(points) - 2 ELSE Len(points) - 1

\* C5 as claimed: success is true exactly when some segment of the returned
\* path passes within the target radius.
C5_AnySegmentCounts ==
    pc = "done" =>
        (Result.success <=>
            \E k \in 1..(Len(points) - 1) : PassesWithin(points[k], points[k + 1], target))

\* C5, amended: success is true exactly when some segment of the returned path
\* that ends at a wall hit passes within the target radius; the segment to the
\* far point is not tested.
C5_HitSegmentsCount ==
    pc = "done" =>
        (Result.success <=>
            \E k \in 1..HitSegments : PassesWithin(points[k], points[k + 1], target))

\* A success by a grazing pass: neither end of the last segment is inside the circle.
C5_Witness ==
    /\ pc = "done" /\ hitTarget
    /\ ~Vec2DistLess(points[Len(points)], target, target.r)
    /\ ~Vec2DistLess(points[Len(points) - 1], target, target.r)

\* C6: an iteration in which no wall is intersected pushes the one point
\* currPos + 2000 * currDir and returns with success = false.
C6_EscapeFarPoint ==
    /\ [][IterationStep /\ (\A k \in DOMAIN walls : ~Intersected(currPos, currDir, walls[k])) =>
            /\ points' = Append(points, Vec2Add(currPos, Vec2Mult(currDir, QInt(2000))))
            /\ hitWall' = 0
            /\ pc' = "done"
            /\ ~hitTarget']_vars
    /\ [](Escaped =>
            /\ ~Result.success
            /\ points[Len(points) - 1] = currPos
            /\ points[Len(points)] = Vec2Add(currPos, Vec2Mult(currDir, QInt(2000))))

\* A ray that leaves a scene with walls after at least one bounce.
C6_Witness == Escaped /\ Len(points) >= 3 /\ currDir # V(QZero, QZero)

\* C7: the wall hit in an iteration is intersected at the least ray parameter
\* of all intersected walls, and every wall before it in the list is
\* intersected strictly later.
C7_NearestWallFirstOnTie ==
    [][HitStep =>
          LET t == RayParam(currPos, currDir, walls[hitWall'])
          IN  /\ Intersected(currPos, currDir, walls[hitWall'])
              /\ minT' = t
              /\ closest' = Vec2Add(currPos, Vec2Mult(currDir, t))
              /\ \A k \in DOMAIN walls :
                    Intersected(currPos, currDir, walls[k]) =>
                        /\ QLe(t, RayParam(currPos, currDir, walls[k]))
                        /\ (k < hitWall' => QLt(t, RayParam(currPos, currDir, walls[k])))]_vars

\* Two walls on the same segment are met at the same t: the first one is the hit.
C7_Witness ==
    /\ pc = "done" /\ hitWall = 1 /\ Len(walls) = 2
    /\ walls[1].a = walls[2].a /\ walls[1].b = walls[2].b
    /\ OnSegment(closest, walls[2].a, walls[2].b)

\* C8: a wall counts as intersected exactly when |determinant| >= 1e-5, the
\* segment parameter lies in [0, 1] and the ray parameter exceeds 0.01; an
\* iteration finds a wall exactly when one is intersected, the wall found is
\* intersected, its hit point is not the current position, and it is not the
\* wall found by the iteration before.
C8_IntersectionTest ==
    [][IterationStep =>
          /\ \A k \in DOMAIN walls :
                NearerHit(GetLineIntersection(currPos, currDir, walls[k].a, walls[k].b), Infinity)
                    <=> Intersected(currPos, currDir, walls[k])
          /\ hitWall' # 0 <=> \E k \in DOMAIN walls : Intersected(currPos, currDir, walls[k])
          /\ hitWall' # 0 =>
                /\ Intersected(currPos, currDir, walls[hitWall'])
                /\ closest' # currPos
                /\ hitWall' # hitWall]_vars

\* The ray along y = 5 passes the wall at distance 0.01 and the wall whose
\* determinant is 5e-6, bounces off the wall whose determinant is 2e-5, and on
\* the way back is stopped by the wall it first passed.
C8_Witness ==
    /\ pc = "done"
    /\ walls = WallConfigs[6]
    /\ points = <<VInt(1, 5), VInt(3, 5), V(Q(101, 100), QInt(5))>>

\* C9: segmentCircleIntersect(p1, p2, circle) is true exactly when the centre
\* lies less than r away from the closest point of the segment; a segment of
\* length 0 is tested as a point, and a centre at height h above the middle of
\* the segment (0,0)-(4,0) hits exactly when |h| < r.
C9_SegmentCircleExact ==
    sciCall # Null =>
        /\ sciCall.result <=> PassesWithin(sciCall.p1, sciCall.p2, sciCall.circle)
        /\ sciCall.p1 = sciCall.p2 =>
              (sciCall.result <=>
                  QLt(Vec2DistSq(sciCall.p1, sciCall.circle), QSq(sciCall.circle.r)))
        /\ (sciCall.p1 = VInt(0, 0) /\ sciCall.p2 = VInt(4, 0) /\ sciCall.circle.x = QInt(2)) =>
              (sciCall.result <=> QLt(QAbs(sciCall.circle.y), sciCall.circle.r))

\* The segment passes the centre at distance r - 1/1000: a hit.
C9_Witness ==
    /\ sciCall # Null
    /\ sciCall.p1 = VInt(0, 0) /\ sciCall.p2 = VInt(4, 0)
    /\ sciCall.circle = [x |-> QInt(2), y |-> Q(999, 1000), r |-> QOne]
    /\ sciCall.result

\* C10: on a mirror hit the new direction has the opposite component along the
\* wall normal and the same component along the wall: it is
\* d - 2 * dot(d, n) * n for the normal n turned against d.
C10_ReflectionLaw ==
    [][HitStep /\ walls[hitWall'].type = "mirror" =>
          LET w == walls[hitWall']
              n == IF QLt(QZero, Vec2Dot(currDir, w.normal))
                   THEN V(QNeg(w.normal.x), QNeg(w.normal.y)) ELSE w.normal
              along == Vec2Sub(w.b, w.a)
              dn == Vec2Dot(currDir, n)
          IN  /\ QLe(dn, QZero)
              /\ Vec2Dot(currDir', n) = QNeg(dn)
              /\ Vec2Dot(currDir', along) = Vec2Dot(currDir, along)
              /\ currDir' = V(QSub(currDir.x, QMul(QMul(QInt(2), dn), n.x)),
                              QSub(currDir.y, QMul(QMul(QInt(2), dn), n.y)))]_vars

\* The ray along (1, 0) leaves the mirror along (4, 3) in direction (7/25, 24/25).
C10_Witness ==
    /\ pc = "loop" /\ hitWall # 0
    /\ walls[hitWall].type = "mirror"
    /\ dir = VInt(1, 0)
    /\ currDir = V(Q(7, 25), Q(24, 25))

\* C11: on a glass hit, with n = n_from / n_to and cosI = -dot(normal, d), the
\* ray is reflected as by a mirror when n^2 * (1 - cosI^2) > 1 and otherwise
\* passes through with its component along the wall scaled by n (Snell's law);
\* a ray that leaves the glass is reflected exactly when sin^2 of its incidence
\* angle exceeds (1.0 / 1.5)^2, and a ray that enters it is never reflected.
C11_TotalInternalReflection ==
    [][HitStep /\ walls[hitWall'].type = "glass" =>
          LET w == walls[hitWall']
              entering == QLt(Vec2Dot(currDir, w.normal), QZero)
              nrm == IF entering THEN w.normal ELSE V(QNeg(w.normal.x), QNeg(w.normal.y))
              n == IF entering THEN Q(2, 3) ELSE Q(3, 2)
              cosI == QNeg(Vec2Dot(nrm, currDir))
              sin2I == QSub(QOne, QSq(cosI))
              sinT2 == QMul(QSq(n), sin2I)
              along == Vec2Sub(w.b, w.a)
              reflected == /\ Vec2Dot(currDir', nrm) = QNeg(Vec2Dot(currDir, nrm))
                           /\ Vec2Dot(currDir', along) = Vec2Dot(currDir, along)
              refracted == /\ Vec2Dot(currDir', along) = QMul(n, Vec2Dot(currDir, along))
                           /\ QLe(Vec2Dot(currDir', nrm), QZero)
          IN  /\ QLt(QOne, sinT2) => reflected
              /\ QLe(sinT2, QOne) => refracted
              /\ entering => refracted
              /\ ~entering => (reflected <=> QLt(Q(4, 9), sin2I))
              /\ ~entering => (refracted <=> QLe(sin2I, Q(4, 9)))]_vars

\* A ray leaving the glass at sin = 65/97, just over 2/3, is reflected.
C11_Witness ==
    /\ pc = "loop" /\ hitWall # 0
    /\ walls[hitWall].type = "glass"
    /\ start = VInt(1, 1)
    /\ dir = VInt(65, 72)
    /\ currDir = V(Q(65, 97), Q(-72, 97))

\* A ray leaving the glass at sin = 48/73, just under 2/3, passes through.
C11_WitnessRefracted ==
    /\ pc = "loop" /\ hitWall # 0
    /\ walls[hitWall].type = "glass"
    /\ start = VInt(1, 1)
    /\ dir = VInt(48, 55)
    /\ currDir.x = Q(72, 73) /\ QLt(QZero, currDir.y)

\* The second of two glass hits in a row, on parallel walls, of a ray shot
\* along d0 that the first wall took as entering and the second as leaving (or
\* the other way round), and that passed through both.
SlabExit(d0) ==
    /\ HitStep /\ i = 1 /\ hitWall # 0
    /\ walls[hitWall].type = "glass" /\ walls[hitWall'].type = "glass"
    /\ Cross(Vec2Sub(walls[hitWall].b, walls[hitWall].a),
             Vec2Sub(walls[hitWall'].b, walls[hitWall'].a)) = QZero
    /\ QLt(Vec2Dot(d0, walls[hitWall].normal), QZero)
          # QLt(Vec2Dot(currDir, walls[hitWall'].normal), QZero)
    /\ QLt(QZero, QMul(Vec2Dot(d0, walls[hitWall].normal),
                       Vec2Dot(currDir, walls[hitWall].normal)))
    /\ QLt(QZero, QMul(Vec2Dot(currDir, walls[hitWall'].normal),
                       Vec2Dot(currDir', walls[hitWall'].normal)))

\* C12: after two refractions in a row through parallel glass walls, one with
\* ratio n and one with ratio 1/n, the direction is the one before the first:
\* its component along the walls is the same, and its component across them
\* is the same up to the rounding of the two square roots, which for a cosine
\* of incidence of 3/5 or more is less than 5 / SqrtDen (exactly the same
\* where the roots are exact).
C12_SlabRoundTrip ==
    [][LET d0 == Vec2Normalize(dir)
       IN  SlabExit(d0) =>
             LET w == walls[hitWall']
                 along == Vec2Sub(w.b, w.a)
             IN  /\ Vec2Dot(currDir', along) = Vec2Dot(d0, along)
                 /\ QLe(QAbs(QSub(Vec2Dot(currDir', w.normal), Vec2Dot(d0, w.normal))),
                        Q(5, SqrtDen))
                 /\ (d0.x = QZero \/ d0.y = QZero) => currDir' = d0]_vars

\* The ray shot along (3, 4) has left the slab with its x component 3/5 again.
C12_Witness ==
    /\ Len(walls) = 2 /\ walls[1].type = "glass" /\ walls[2].type = "glass"
    /\ dir = VInt(3, 4)
    /\ Len(points) = 3
    /\ hitWall = 2
    /\ currDir.x = Q(3, 5) /\ QLt(QZero, currDir.y)

\* C13: emitter (0,50), one mirror from (50,0) to (50,100), target (100,50)
\* r = 15, direction (1,0), maxBounces >= 2: the path is (0,50), (50,50) and
\* the far point (-1950,50) along (-1,0), with one reflection and success = false.
C13_MirrorScenario ==
    (/\ pc = "done" /\ walls = MirrorScene /\ target = Circle(100, 50, 15)
     /\ start = VInt(0, 50) /\ dir = VInt(1, 0) /\ maxBounces >= 2)
        => /\ Result.path = <<VInt(0, 50), VInt(50, 50), VInt(-1950, 50)>>
           /\ ~Result.success
           /\ currDir = VInt(-1, 0)
           /\ Len(particles) = 3 /\ particles[1].x = QInt(50) /\ particles[1].y = QInt(50)

\* The scenario run with the default limit of 20 bounces.
C13_Witness ==
    /\ pc = "done" /\ walls = MirrorScene /\ target = Circle(100, 50, 15)
    /\ start = VInt(0, 50) /\ dir = VInt(1, 0) /\ maxBounces = DefaultMaxBounces
    /\ Len(points) = 3

\* C14: emitter (0,50), glass square over x in [40,60], y in [20,80], target
\* (90,50) r = 15, direction (1,0): the ray is refracted twice, at (40,50) and
\* at (60,50), has direction (1,0) again after the second refraction, and with
\* a bounce left goes on along (1,0) through the target circle.
C14_GlassSquareScenario ==
    (/\ pc = "done" /\ walls = GlassSquareScene /\ target = Circle(90, 50, 15)
     /\ start = VInt(0, 50) /\ dir = VInt(1, 0) /\ maxBounces >= 2)
        => /\ SubSeq(Result.path, 1, 3) = <<VInt(0, 50), VInt(40, 50), VInt(60, 50)>>
           /\ currDir = VInt(1, 0)
           /\ Len(particles) = 6
           /\ walls[1].type = "glass" /\ walls[2].type = "glass"
           /\ maxBounces >= 3 =>
                /\ Result.path = <<VInt(0, 50), VInt(40, 50), VInt(60, 50), VInt(2060, 50)>>
                /\ PassesWithin(Result.path[3], Result.path[4], target)

\* The scenario run with the default limit of 20 bounces.
C14_Witness ==
    /\ pc = "done" /\ walls = GlassSquareScene /\ target = Circle(90, 50, 15)
    /\ start = VInt(0, 50) /\ dir = VInt(1, 0) /\ maxBounces = DefaultMaxBounces
    /\ Len(points) = 4

\* C15: with maxBounces <= 0 traceRay returns the path of the origin alone and
\* success = false, and has looked at no wall; with no walls and maxBounces >= 1
\* it returns the origin and the point 2000 along the (normalised) direction,
\* and success = false.
C15_DegenerateInputs ==
    /\ (pc = "done" /\ maxBounces <= 0) =>
          /\ Result.path = <<start>>
          /\ ~Result.success
          /\ closest = Null /\ minT = Infinity /\ hitWall = 0
          /\ particles = <<>>
    /\ (pc = "done" /\ walls = <<>> /\ maxBounces >= 1) =>
          /\ Result.path =
                <<start, Vec2Add(start, Vec2Mult(Vec2Normalize(dir), QInt(2000)))>>
          /\ (dir \in {VInt(1, 0), VInt(-1, 0), VInt(0, 1), VInt(0, -1)} =>
                Result.path[2] = Vec2Add(start, Vec2Mult(dir, QInt(2000))))
          /\ ~Result.success

\* A trace with maxBounces = 0 in a scene whose first wall the ray would have hit.
C15_Witness ==
    /\ pc = "done" /\ maxBounces = 0
    /\ Len(walls) = 2
    /\ start = VInt(1, 5) /\ dir = VInt(1, 0)

\* C16: with a zero direction, currDir is (0,0), getLineIntersection finds no
\* intersection with any wall, and traceRay returns in its first iteration
\* with the path origin, origin and success = false; a call from shootRay
\* never has a zero direction: it has (1,0) when the mouse is on the emitter
\* and mouse - emitter otherwise.
C16_ZeroDirection ==
    /\ (pc # "idle" /\ dir = VInt(0, 0)) =>
          /\ currDir = VInt(0, 0)
          /\ \A k \in DOMAIN walls :
                GetLineIntersection(currPos, currDir, walls[k].a, walls[k].b) = Null
          /\ ~FromShootRay
    /\ (pc = "done" /\ dir = VInt(0, 0) /\ maxBounces >= 1) =>
          /\ Result.path = <<start, start>>
          /\ ~Result.success
          /\ i = 0
    /\ FromShootRay =>
          /\ start = emitter /\ aim.emitter = emitter /\ dir = aim.dir
          /\ dir # VInt(0, 0)
          /\ dir = IF aim.mouse = emitter THEN VInt(1, 0) ELSE Vec2Sub(aim.mouse, emitter)

\* A zero direction traced among walls, with bounces to spare.
C16_Witness ==
    /\ pc = "done" /\ dir = VInt(0, 0)
    /\ Len(walls) >= 4 /\ maxBounces >= 2
    /\ points = <<start, start>>

\* A click with the mouse on the emitter.
C16_WitnessShootRay == FromShootRay /\ aim.mouse = emitter /\ pc = "done"

\* C17 as claimed: no step of a trace changes walls, target, emitter,
\* maxBounces, history, attempts or the particle list.
C17_NothingOutlivesTheCall ==
    [][UNCHANGED <<walls, target, emitter, maxBounces, history, attempts, particles>>]_vars

\* C17, amended: no step of a trace changes walls, target, emitter, maxBounces,
\* history or attempts; the particle list is changed only by a mirror or glass
\* hit, which appends three particles at the hit point.
C17_OnlyParticlesOutliveTheCall ==
    [][/\ UNCHANGED <<walls, target, emitter, maxBounces, history, attempts>>
       /\ IF HitStep /\ walls[hitWall'].type \in {"mirror", "glass"}
          THEN /\ Len(particles') = Len(particles) + 3
               /\ SubSeq(particles', 1, Len(particles)) = particles
               /\ \A k \in (Len(particles) + 1)..Len(particles') :
                     /\ particles'[k].x = closest'.x /\ particles'[k].y = closest'.y
                     /\ particles'[k].life = 1
                     /\ particles'[k].color =
                           (IF walls[hitWall'].type = "mirror" THEN "#00ccff" ELSE "#fff")
          ELSE particles' = particles]_vars

\* A trace that has returned after two hits that pushed particles.
C17_Witness == pc = "done" /\ Len(particles) >= 6 /\ emitter = SceneEmitter(walls)

\* ------------------------------------------------------------------------
\* Properties of the maze
\* ------------------------------------------------------------------------
RightOf(a) == <<a[1] + 1, a[2]>>
Below(a) == <<a[1], a[2] + 1>>

\* The wall between the adjacent cells a and b is removed, by the flags that
\* the emitting loops read: the right flag of the left cell, the bottom flag
\* of the upper cell.
Open(g, a, b) ==
    \/ b = RightOf(a) /\ ~g[a].right
    \/ a = RightOf(b) /\ ~g[b].right
    \/ b = Below(a) /\ ~g[a].bottom
    \/ a = Below(b) /\ ~g[b].bottom

\* The cells reached from the cells S through removed walls.
RECURSIVE ReachFrom(_, _, _)
ReachFrom(g, cells, S) ==
    LET S2 == S \cup {b \in cells : \E a \in S : Open(g, a, b)}
    IN  IF S2 = S THEN S ELSE ReachFrom(g, cells, S2)

\* The pairs of adjacent cells with the wall between them removed.
OpenEdges(g, cells) ==
    {e \in cells \X cells : (e[2] = RightOf(e[1]) \/ e[2] = Below(e[1])) /\ Open(g, e[1], e[2])}

\* The two flags of every shared wall are equal, and the outer walls stand.
FlagsAgree(g, cells) ==
    \A a \in cells :
        /\ IF RightOf(a) \in cells THEN g[a].right = g[RightOf(a)].left ELSE g[a].right
        /\ IF Below(a) \in cells THEN g[a].bottom = g[Below(a)].top ELSE g[a].bottom
        /\ (a[1] = 0 => g[a].left)
        /\ (a[2] = 0 => g[a].top)

\* A line of mazeWalls lies on the edge between the adjacent cells a and b.
LineBetween(ln, a, b) ==
    \/ /\ b = RightOf(a)
       /\ ln.x1 = Q(a[1] + 1, cols) /\ ln.x2 = ln.x1
       /\ ln.y1 = Q(a[2], rows) /\ ln.y2 = Q(a[2] + 1, rows)
    \/ /\ b = Below(a)
       /\ ln.y1 = Q(a[2] + 1, rows) /\ ln.y2 = ln.y1
       /\ ln.x1 = Q(a[1], cols) /\ ln.x2 = Q(a[1] + 1, cols)

\* No returned line lies between the adjacent cells a and b.
Unblocked(a, b) ==
    /\ b \in {RightOf(a), Below(a)} \/ a \in {RightOf(b), Below(b)}
    /\ \A k \in DOMAIN mazeWalls :
          ~LineBetween(mazeWalls[k], a, b) /\ ~LineBetween(mazeWalls[k], b, a)

\* The cells reached from the cells S without crossing a returned line.
RECURSIVE ReachEmitted(_, _)
ReachEmitted(cells, S) ==
    LET S2 == S \cup {b \in cells : \E a \in S : Unblocked(a, b)}
    IN  IF S2 = S THEN S ELSE ReachEmitted(cells, S2)

\* C18: when the carving loop has ended, the removed walls are a spanning tree
\* of the grid: every cell is visited and reached from (0,0) through removed
\* walls, and cols*rows - 1 shared walls are removed, so that there is no cycle.
C18_CarvedSpanningTree ==
    mazePc \in {"emit", "done"} =>
        LET cells == Cells(cols, rows)
        IN  /\ \A a \in cells : grid[a].visited
            /\ ReachFrom(grid, cells, {<<0, 0>>}) = cells
            /\ Cardinality(OpenEdges(grid, cells)) = cols * rows - 1
            /\ FlagsAgree(grid, cells)

\* The carving of a 3 by 3 grid has ended.
C18_Witness == mazePc = "emit" /\ cols = 3 /\ rows = 3 /\ stack = <<>>

\* C19: every returned line lies on an interior cell edge whose wall was not
\* removed, no two on the same edge; so no line blocks a carved passage, there
\* are at most (cols-1)*(rows-1) lines, and every cell is reached from (0,0)
\* without crossing a line, whatever was drawn.
C19_EmittedWallsStand ==
    mazePc = "done" =>
        LET cells == Cells(cols, rows)
        IN  /\ \A k \in DOMAIN mazeWalls :
                  \E a \in cells :
                     \/ /\ a[1] < cols - 1 /\ grid[a].right
                        /\ LineBetween(mazeWalls[k], a, RightOf(a))
                     \/ /\ a[2] < rows - 1 /\ grid[a].bottom
                        /\ LineBetween(mazeWalls[k], a, Below(a))
            /\ \A j, k \in DOMAIN mazeWalls :
                  j # k => \A e \in cells \X cells :
                              ~(LineBetween(mazeWalls[j], e[1], e[2])
                                /\ LineBetween(mazeWalls[k], e[1], e[2]))
            /\ \A e \in OpenEdges(grid, cells) : Unblocked(e[1], e[2])
            /\ Len(mazeWalls) <= (cols - 1) * (rows - 1)
            /\ ReachEmitted(cells, {<<0, 0>>}) = cells

\* Every standing wall of a 3 by 3 maze was kept.
C19_Witness ==
    mazePc = "done" /\ cols = 3 /\ rows = 3 /\ Len(mazeWalls) = 4

\* C20: every returned line has its end points in the unit square, is
\* vertical of length 1/rows or horizontal of length 1/cols, lies strictly
\* inside the unit square and not along its border, and is glass or mirror.
C20_EmittedWallShape ==
    mazePc = "done" =>
        \A k \in DOMAIN mazeWalls :
            LET ln == mazeWalls[k]
                unit(q) == QLe(QZero, q) /\ QLe(q, QOne)
                inside(q) == QLt(QZero, q) /\ QLt(q, QOne)
            IN  /\ unit(ln.x1) /\ unit(ln.y1) /\ unit(ln.x2) /\ unit(ln.y2)
                /\ \/ ln.x1 = ln.x2 /\ QSub(ln.y2, ln.y1) = Q(1, rows) /\ inside(ln.x1)
                   \/ ln.y1 = ln.y2 /\ QSub(ln.x2, ln.x1) = Q(1, cols) /\ inside(ln.y1)
                /\ ln.type \in {"glass", "mirror"}

\* A maze returned with a glass line, a mirror line and a line that ends on
\* the border of the unit square.
C20_Witness ==
    /\ mazePc = "done"
    /\ \E k \in DOMAIN mazeWalls : mazeWalls[k].type = "glass"
    /\ \E k \in DOMAIN mazeWalls : mazeWalls[k].type = "mirror"
    /\ \E k \in DOMAIN mazeWalls : mazeWalls[k].y2 = QOne /\ mazeWalls[k].x1 = mazeWalls[k].x2

\* C21: generate called with cols <= 0 or rows <= 0 ends in an explicit
\* rejection of its arguments.  (The code makes no such test: the call ends
\* with the TypeError of line 18 or 19.)
C21_RejectsBadArguments ==
    (cols <= 0 \/ rows <= 0) /\ mazePc # "called" => mazePc = "InvalidArgument"

\* What the code does with such arguments: it throws the TypeError, having
\* built no cell and returned no wall.
C21_BadArgumentsThrow ==
    (cols <= 0 \/ rows <= 0) /\ mazePc # "called" =>
        mazePc = "TypeError" /\ grid = <<>> /\ mazeWalls = <<>>

\* generate(0, 3) has thrown.
C21_Witness == mazePc = "TypeError" /\ cols = 0 /\ rows = 3

\* Both flags of the wall between the adjacent cells a and b are cleared.
RemovedOnBoth(g, a, b) ==
    \/ b = RightOf(a) /\ ~g[a].right /\ ~g[b].left
    \/ a = RightOf(b) /\ ~g[b].right /\ ~g[a].left
    \/ b = Below(a) /\ ~g[a].bottom /\ ~g[b].top
    \/ a = Below(b) /\ ~g[b].bottom /\ ~g[a].top

\* C30: during carving the stack is a simple path from cell (0,0): no cell is
\* on it twice, every cell on it is visited, consecutive cells are adjacent
\* with the wall between them removed on both, and the two flags of every
\* shared wall are equal.
C30_StackIsSimplePath ==
    mazePc = "carve" =>
        /\ stack # <<>> => stack[1] = <<0, 0>>
        /\ \A j, k \in DOMAIN stack : j # k => stack[j] # stack[k]
        /\ \A k \in DOMAIN stack : stack[k] \in Cells(cols, rows) /\ grid[stack[k]].visited
        /\ \A k \in 1..(Len(stack) - 1) : RemovedOnBoth(grid, stack[k], stack[k + 1])
        /\ FlagsAgree(grid, Cells(cols, rows))

\* The carving has backtracked and gone on: the stack holds three cells or
\* more, and a visited cell is no longer on it.
C30_Witness ==
    /\ mazePc = "carve"
    /\ Len(stack) >= 3
    /\ \E a \in Cells(cols, rows) : grid[a].visited /\ \A k \in DOMAIN stack : stack[k] # a

\* Point p lies on the segment a-b: on its line and within its bounding box.
LiesOn(p, a, b) ==
    /\ Cross(Vec2Sub(b, a), Vec2Sub(p, a)) = QZero
    /\ QLe(QMin(a.x, b.x), p.x) /\ QLe(p.x, QMax(a.x, b.x))
    /\ QLe(QMin(a.y, b.y), p.y) /\ QLe(p.y, QMax(a.y, b.y))

\* C26: the path of traceRay has at least one point and starts at the origin;
\* an iteration of the loop appends exactly one point, the hit point on the
\* nearest wall or the far point, and a return from the loop test appends
\* none; so the path has at most maxBounces + 1 points (for maxBounces >= 0;
\* one point below that), and every point after the first lies on a wall
\* segment, except a far point, which is the last.
C26_PathShape ==
    /\ [](pc # "idle" =>
            /\ Len(points) >= 1
            /\ points[1] = start
            /\ (maxBounces >= 0 => Len(points) <= maxBounces + 1)
            /\ (maxBounces < 0 => Len(points) = 1)
            /\ \A k \in 2..Len(points) :
                  \/ k = Len(points) /\ Escaped
                  \/ \E w \in DOMAIN walls : LiesOn(points[k], walls[w].a, walls[w].b))
    /\ [][pc = "loop" /\ i < maxBounces =>
            /\ Len(points') = Len(points) + 1
            /\ SubSeq(points', 1, Len(points)) = points
            /\ IF hitWall' = 0
               THEN points'[Len(points')] = Vec2Add(currPos, Vec2Mult(currDir, QInt(2000)))
               ELSE /\ points'[Len(points')] = closest'
                    /\ LiesOn(closest', walls[hitWall'].a, walls[hitWall'].b)]_vars
    /\ [][pc = "loop" /\ i >= maxBounces => points' = points]_vars

\* A returned path of four points or more whose last point is a far point,
\* the ones between lying on walls.
C26_Witness == Escaped /\ Len(points) >= 4

\* C27: in every reachable state of the game, this.maxBounces is
\* CONFIG.defaultMaxBounces (20) while the level is one of the three static
\* levels and CONFIG.complexMaxBounces (150) while it is a maze level.
C27_MaxBouncesByLevel ==
    /\ DefaultMaxBounces = 20
    /\ ComplexMaxBounces = 150
    /\ Len(StaticLevels) = 3
    /\ maxBounces = IF levelIndex < 3 THEN 20 ELSE 150

\* A maze level after a shot, a retry having kept the map.
C27_Witness == levelIndex = 3 /\ maxBounces = 150 /\ attempts = 2 /\ page = "game"


\* C22: every wall of the wall list has two different end points, addWall
\* refusing a segment whose end points coincide.  The code stores every
\* segment it is given: this formula is violated.
C22_NoDegenerateWall == \A k \in 1..Len(walls) : walls[k].a # walls[k].b

\* What addWall does: it stores the segment as given, with the normal
\* calculateNormal returns, which is (0, 0) when the end points coincide.
C22_DegenerateStored ==
    [][\A a \in WallPoints, b \in WallPoints, type \in WallTypes :
          walls' = AddWall(walls, a.x, a.y, b.x, b.y, type)
          => /\ Len(walls') = Len(walls) + 1
             /\ walls'[Len(walls')].a = a
             /\ walls'[Len(walls')].b = b
             /\ (a = b => walls'[Len(walls')].normal = VInt(0, 0))]_vars

\* A wall from (3, 4) to (3, 4) is in the list, after a proper one.
C22_Witness ==
    /\ Len(walls) = 2
    /\ walls[1].a # walls[1].b
    /\ walls[2].a = VInt(3, 4) /\ walls[2].b = VInt(3, 4)
    /\ walls[2].normal = VInt(0, 0)

\* The sign of a rational.
QSgn(a) == IF a.n > 0 THEN 1 ELSE IF a.n < 0 THEN -1 ELSE 0

\* The side of the line through the wall w on which p lies: 1, -1, or 0 on it.
Side(p, w) == QSgn(Cross(Vec2Sub(w.b, w.a), Vec2Sub(p, w.a)))

\* The path pts goes through a mirror of ws at its point number j: the point
\* lies on the mirror, the point before it and the point after it lie on
\* opposite sides of it.
ThroughMirrorAt(ws, pts, j) ==
    \E k \in 1..Len(ws) :
        /\ ws[k].type = "mirror"
        /\ LiesOn(pts[j], ws[k].a, ws[k].b)
        /\ Side(pts[j - 1], ws[k]) * Side(pts[j + 1], ws[k]) = -1

\* The wall that traceRay finds from the point number j - 1 of the path pts
\* towards the point number j.
WallHitAt(ws, pts, j) ==
    NearestHit(ws, pts[j - 1], Vec2Normalize(Vec2Sub(pts[j], pts[j - 1])))

\* C29: a ray never passes through a mirror: no recorded path goes through a
\* mirror at one of its points.  The code lets the ray through a mirror that
\* it meets within epsilon of the point where it has just been reflected, as
\* in a corner of the canvas: this formula is violated.
C29_NeverThroughMirror ==
    \A k \in 1..Len(history) :
        \A j \in 2..(Len(history[k].path) - 1) : ~ThroughMirrorAt(walls, history[k].path, j)

\* What the code does at a mirror hit, on the recorded paths: the normal used
\* has a negative dot product with the direction of arrival, a positive one
\* with the direction of departure, and the ray leaves the wall that was hit
\* on the side from which it came.
C29_MirrorHitSameSide ==
    \A k \in 1..Len(history) :
        LET pts == history[k].path
        IN  \A j \in 2..(Len(pts) - 1) :
                LET sc == WallHitAt(walls, pts, j)
                    w == walls[sc.hitWall]
                    d == Vec2Sub(pts[j], pts[j - 1])
                    d2 == Vec2Sub(pts[j + 1], pts[j])
                    n == IF QLt(QZero, Vec2Dot(d, w.normal))
                         THEN V(QNeg(w.normal.x), QNeg(w.normal.y)) ELSE w.normal
                IN  /\ sc.closest = pts[j]
                    /\ w.type = "mirror"
                    /\ QLt(Vec2Dot(d, n), QZero)
                    /\ QLt(QZero, Vec2Dot(d2, n))
                    /\ Side(pts[j - 1], w) # 0
                    /\ Side(pts[j + 1], w) = Side(pts[j - 1], w)

\* Both kinds of shot are in the history: one reflected by the upper mirror of
\* the first level into the target, and one that went through the left border
\* at the corner (0, 0) after its reflection by the upper border.
C29_Witness ==
    /\ levelIndex = 0
    /\ Len(history) >= 2
    /\ history[1].success /\ Len(history[1].path) = 3
    /\ ~history[2].success /\ ThroughMirrorAt(walls, history[2].path, 2)
    /\ WallHitAt(walls, history[2].path, 2).hitWall = 1

InCanvas(p) ==
    /\ QLe(QZero, p.x) /\ QLe(p.x, QInt(canvas[1]))
    /\ QLe(QZero, p.y) /\ QLe(p.y, QInt(canvas[2]))

\* The border walls of this.walls are those of the canvas as it is now.
LoadedAtCanvasSize ==
    /\ Len(walls) >= 4
    /\ walls[3].a = VInt(canvas[1], canvas[2])
    /\ walls[1].a = VInt(0, 0)

\* The corners of the canvas.
CanvasCorners ==
    {VInt(0, 0), VInt(canvas[1], 0), VInt(canvas[1], canvas[2]), VInt(0, canvas[2])}

\* C24: the border mirrors contain the light: with the level loaded at the
\* size of the canvas, every point of every path shot from the emitter lies
\* in the canvas rectangle (the far point of the escape branch does not).
\* The code lets a ray aimed at a corner of the canvas out: this formula is
\* violated.
C24_LightContained ==
    LoadedAtCanvasSize =>
        \A k \in 1..Len(history) :
            \A j \in 1..Len(history[k].path) : InCanvas(history[k].path[j])

\* What the code does in the shots followed: a path leaves the canvas only
\* with its last point, the far point, and only from a corner of the canvas.
C24_EscapeOnlyAtCorner ==
    LoadedAtCanvasSize =>
        \A k \in 1..Len(history) :
            LET pts == history[k].path
            IN  /\ \A j \in 1..(Len(pts) - 1) : InCanvas(pts[j])
                /\ ~InCanvas(pts[Len(pts)]) =>
                      /\ Len(pts) >= 3
                      /\ pts[Len(pts) - 1] \in CanvasCorners
                      /\ ~history[k].success

\* A shot in a maze with the mouse at (0, 0): the path ends 2000 units from
\* the corner (0, 0), outside the canvas.
C24_Witness ==
    /\ levelIndex = 3
    /\ LoadedAtCanvasSize
    /\ Len(history) = 1
    /\ history[1].path[1] = emitter
    /\ history[1].path[2] = VInt(0, 0)
    /\ ~InCanvas(history[1].path[3])

\* C25: a shot sends the page to the button challenge exactly when it is
\* unsuccessful and this.attempts, the number of shots since the last load or
\* resume, has reached 10; this.attempts goes up by one with every shot, to 0
\* with every load of a level and with the resume, and changes in no other
\* step.
C25_RedirectRule ==
    /\ [][ShootClick => /\ attempts' = attempts + 1
                        /\ (page' = "button") <=> (~history'[1].success /\ attempts' >= 10)]_vars
    /\ [][page' # page /\ page' = "button" => ShootClick]_vars
    /\ [][NextLevel \/ ResetLevel \/ RetryLevel \/ Resize \/ PageLoad => attempts' = 0]_vars
    /\ [][LoadEvent /\ loadEvent = "pending-resume" => attempts' = 0]_vars
    /\ [][attempts' # attempts =>
            \/ ShootClick
            \/ NextLevel \/ ResetLevel \/ RetryLevel \/ Resize \/ PageLoad
            \/ LoadEvent /\ loadEvent = "pending-resume"]_vars

\* The tenth shot since the load hit the target: the page stays.
C25_Witness ==
    /\ attempts = 10
    /\ page = "game"
    /\ Len(history) = 10
    /\ history[1].success
    /\ \A k \in 2..10 : ~history[k].success

C31_Counts ==
    /\ mazePc = "carve" =>
          /\ mazeIter <= 2 * cols * rows - 1
          /\ \A cl \in Cells(cols, rows) : pops[cl] <= pushes[cl] /\ pushes[cl] <= 1
    /\ mazePc \in {"emit", "done"} =>
          /\ stack = <<>>
          /\ mazeIter = 2 * cols * rows - 1
          /\ \A cl \in Cells(cols, rows) : pushes[cl] = 1 /\ pops[cl] = 1

\* C31: for cols, rows >= 1 and every choice of neighbours the carving loop
\* of generate comes to an end with the stack empty, every cell pushed once
\* and popped once, after 2 * cols * rows - 1 iterations.
C31_CarvingTerminates ==
    /\ []C31_Counts
    /\ (mazePc = "called" /\ cols >= 1 /\ rows >= 1) ~> (mazePc = "emit" /\ stack = <<>>)

\* The loop has ended on the grid of 3 by 3 after its 17 iterations.
C31_Witness ==
    mazePc = "emit" /\ cols = 3 /\ rows = 3 /\ mazeIter = 17 /\ stack = <<>>

\* ------------------------------------------------------------------------
\* The records of the levels
\* ------------------------------------------------------------------------
\* The path lengths of the successful shots made in the level index so far,
\* and the least of them.
WonIn(index) == {p[2] : p \in {q \in wonLengths : q[1] = index}}
LeastWonIn(index) == CHOOSE n \in WonIn(index) : \A k \in WonIn(index) : n <= k

\* The records are those of the successful shots: a record set for a level is
\* the least path length won in it, and this.currentLevelBest is the record of
\* the level loaded, Infinity when nothing was won in it.
RecordsOfWins ==
    /\ \A p \in levelRecords : WonIn(p[1]) # {} /\ p[2] = LeastWonIn(p[1])
    /\ currentLevelBest = IF WonIn(levelIndex) = {} THEN Infinity
                          ELSE QInt(RecordOf(levelRecords, levelIndex))
    /\ WonIn(levelIndex) # {} => HasRecord(levelRecords, levelIndex)

\* A record that is set stays set and does not go up in a step.
RecordsGoDown ==
    \A p \in levelRecords :
        HasRecord(levelRecords', p[1]) /\ RecordOf(levelRecords', p[1]) <= p[2]

\* C32 as stated: across every sequence of shots and loads a record set for a
\* level is the least path length of the successful shots made in it,
\* currentLevelBest is the record of the level loaded (Infinity when it has no
\* successful shot), and no record goes up.
C32_RecordsKept == []RecordsOfWins /\ [][RecordsGoDown]_vars

\* C32, what holds of the code: the same for the levels in which no shot of
\* path length 0 has succeeded.
C32_RecordsKeptAboveZero ==
    /\ [](\A p \in levelRecords :
             0 \notin WonIn(p[1]) => WonIn(p[1]) # {} /\ p[2] = LeastWonIn(p[1]))
    /\ [](0 \notin WonIn(levelIndex) =>
             /\ currentLevelBest = IF WonIn(levelIndex) = {} THEN Infinity
                                   ELSE QInt(RecordOf(levelRecords, levelIndex))
             /\ WonIn(levelIndex) # {} => HasRecord(levelRecords, levelIndex))
    /\ [][\A p \in levelRecords :
             0 \notin WonIn(p[1]) =>
                HasRecord(levelRecords', p[1]) /\ RecordOf(levelRecords', p[1]) <= p[2]]_vars

\* A shot of path length 0 has won the first level, the level was loaded
\* again, and a later win of length 2 stands as its record.
C32_Witness ==
    /\ levelIndex = 0
    /\ WonIn(0) = {0, 2}
    /\ RecordOf(levelRecords, 0) = 2
    /\ currentLevelBest = QInt(2)

\* ------------------------------------------------------------------------
\* Clicks after a win
\* ------------------------------------------------------------------------
\* A shot has succeeded since the level was loaded: this.history, emptied by
\* loadLevel, holds a successful shot.
WonSinceLoad == \E k \in 1..Len(history) : history[k].success

\* C33 as stated: once a shot in a level has succeeded no click is processed
\* as a shot (this.attempts and this.history stay as they are) until loadLevel
\* runs, however the clicks and the 300 ms timer of handleWin interleave.
C33_NoShotAfterWin == [][WonSinceLoad => ~ShootClick]_vars

\* C33, what holds of the code: after a success a click is processed as a shot
\* only while the win overlay is not active yet, a timer of handleWin still
\* pending; with the overlay active no click is.
C33_ShotAfterWinOnlyBeforeOverlay ==
    [][(WonSinceLoad /\ ShootClick => ~winOverlay /\ winTimers > 0)
       /\ (winOverlay => ~ShootClick)]_vars

\* A shot has won the first level and, the timer of handleWin still pending,
\* a second click was processed: two attempts, two shots in the history.
C33_Witness ==
    /\ levelIndex = 0
    /\ attempts = 2
    /\ Len(history) = 2
    /\ history[2].success
    /\ ~winOverlay
    /\ winTimers = 2

\* ------------------------------------------------------------------------
\* The win overlay after a load
\* ------------------------------------------------------------------------
\* A shot has succeeded since the level was loaded: this.particles, emptied by
\* loadLevel, holds the burst of handleWin.
BurstSinceLoad == \E k \in 1..Len(particles) : particles[k].color = "#0f0"

\* C34 as stated: after loadLevel the win overlay is inactive and stays so
\* until a shot in the level loaded succeeds; a timer of handleWin scheduled
\* before the load does not activate it afterwards.
C34_OverlayNeedsWinInLevel == page = "game" /\ winOverlay => BurstSinceLoad

\* C34, what holds of the code: every load leaves the overlay inactive, and
\* the overlay becomes active by a timer of handleWin only, whenever that was
\* scheduled.
C34_OverlayOffAtLoadOnByTimer ==
    [][(NextLevel \/ ResetLevel \/ RetryLevel \/ Resize => ~winOverlay')
       /\ (~winOverlay /\ winOverlay' => WinTimer)]_vars

\* The level was loaded again after a win and the timer of that win has
\* activated the overlay: no shot was made since the load.
C34_Witness ==
    /\ page = "game"
    /\ winOverlay
    /\ attempts = 0
    /\ particles = <<>>
    /\ history = <<>>
    /\ winTimers = 0

\* ------------------------------------------------------------------------
\* The stages of the button mini-game
\* ------------------------------------------------------------------------
\* The step is resetGame's: level 0, no click counted, not won, the button at
\* (50, 50).
IsReset == level' = 0 /\ clickCount' = 0 /\ ~won' /\ position' = <<50, 50>>

\* The step counts a click and takes the level up one stage, at the
\* thresholds of the stages.
StageUp ==
    /\ level' = level + 1
    /\ clickCount' = clickCount + 1
    /\ \/ level = 0 /\ clickCount' = 1
       \/ level = 1 /\ clickCount' > 3
       \/ level = 2 /\ clickCount' > 6
       \/ level = 3 /\ clickCount' > 8

\* C35: the level stays in 0..4 and changes only one stage up on a counted
\* click at the thresholds (or back to 0 by resetGame); won becomes true only
\* by a click at level 4 with mouseSpeed <= 0.1, so won implies level 4 and
\* 10 clicks; a level-4 click with mouseSpeed > 0.1 changes the position
\* only; once won, clicks and dodge events change nothing, until resetGame
\* restores level 0, click count 0, won false and position (50, 50).
C35_ButtonStages ==
    /\ [](level \in 0..4 /\ (won => level = 4 /\ clickCount = 10))
    /\ [][/\ level' # level => (Click /\ StageUp) \/ (ResetGame /\ IsReset)
          /\ ~won /\ won' =>
                Click /\ level = 4 /\ mouseSpeed <= ClickSpeedLimit
                      /\ clickCount' = clickCount + 1
          /\ Click /\ ~won /\ level = 4 /\ mouseSpeed > ClickSpeedLimit =>
                UNCHANGED <<level, clickCount, won, mouseSpeed, dodgeTimer, timeoutCount>>
          /\ won /\ (Click \/ Hover \/ Move) => UNCHANGED buttonVars
          /\ won /\ ~won' => ResetGame /\ IsReset
          /\ ResetGame => IsReset]_vars

\* The game is won: level 4, ten clicks counted, the last of them slow.
C35_Witness == won /\ level = 4 /\ clickCount = 10 /\ mouseSpeed = ClickSpeedLimit

\* ------------------------------------------------------------------------
\* The delayed dodge of the button
\* ------------------------------------------------------------------------
\* At most one timeout of tryDodge is pending, and state.dodgeTimer is its id.
OneDodgeTimer == Cardinality(timeouts) <= 1 /\ timeouts \subseteq {dodgeTimer}

\* The step is a click that is counted.
CountedClick == Click /\ clickCount' = clickCount + 1

\* C36 as stated: at most one delayed dodge timer is pending at any time and
\* state.dodgeTimer refers to it, a level-1 hover cancelling the pending one;
\* after a counted click no timer of an earlier hover is left to move the
\* button.
C36_OneDodgeTimer == []OneDodgeTimer /\ [][CountedClick => timeouts' = {}]_vars

\* C36, what holds of the code: the same where the second copy of the script
\* runs, whose tryDodge clears the pending timeout on an 'enter'.
C36_OneDodgeTimerSecondCopy ==
    /\ [](script = 2 => OneDodgeTimer)
    /\ [][script = 2 /\ CountedClick => timeouts' = {}]_vars

\* With the first copy of the script a click was counted at level 1 while two
\* timeouts were pending: the timeout of the first hover is left.
C36_Witness ==
    /\ script = 1
    /\ level = 1
    /\ clickCount = 2
    /\ timeoutCount = 2
    /\ dodgeTimer = 2
    /\ timeouts = {1}


====
